---- MODULE Spec2Model ----
(***************************************************************************)
(* Card Game Studio (src/src/App.tsx): the card renderer (renderCanvas and *)
(* the 800x1200 revision's CardForm.updateCanvas), the Dashboard's card    *)
(* export handler, its card and image handlers and the CardForm preview,   *)
(* as state machines; and the image handlers of the localStorage revision  *)
(* (src/unnamed/part_000).                                                 *)
(*                                                                         *)
(* Conventions.                                                            *)
(*  - An optional JavaScript property is a sequence of length at most one: *)
(*    None is `undefined', Some(v) a present value.                        *)
(*  - Text the code measures, splits or upper-cases (value, text,          *)
(*    description, valueDescription) is a sequence of one-character        *)
(*    strings; text it only compares or passes on (colors, fonts, ids) is  *)
(*    a string.                                                            *)
(*  - Every coordinate and size handed to the 2D context is in tenths of   *)
(*    a pixel, so that h * 0.7 is exact: T(n) is n pixels.                 *)
(*  - A surface's `pixels' is the list of drawing operations that decide   *)
(*    its content: an opaque fill of the whole surface forgets what was    *)
(*    drawn before it.                                                     *)
(***************************************************************************)
EXTENDS Integers, Sequences, FiniteSets, TLC

None == <<>>
Some(v) == <<v>>

\* JavaScript truthiness of an optional string, text, number, boolean.
TruthyStr(o) == o # None /\ o[1] # ""
TruthyText_DefinedOnly(o) == o # None
TruthyText(o) == o # None /\ o[1] # <<>>
TruthyNum(o) == o # None /\ o[1] # 0
TruthyBool_AbsentIsTrue(o) == o = None \/ o[1]
TruthyBool(o) == o # None /\ o[1]

\* a || d on an optional string, a ?? d on an optional number.
OrStr(o, d) == IF TruthyStr(o) THEN o[1] ELSE d
Nullish(o, d) == IF o = None THEN d ELSE o[1]

\* n pixels, in tenths of a pixel.
T(n) == 10 * n

(***************************************************************************)
(* String.prototype.split("\n") and toUpperCase on texts.                  *)
(***************************************************************************)
RECURSIVE SplitFrom(_, _, _)
SplitFrom(s, i, cur) ==
    IF i > Len(s) THEN <<cur>>
    ELSE IF s[i] = "\n" THEN <<cur>> \o SplitFrom(s, i + 1, <<>>)
    ELSE SplitFrom(s, i + 1, Append(cur, s[i]))

Split(s) == SplitFrom(s, 1, <<>>)

UpperChar(c) ==
    CASE c = "a" -> "A"
      [] c = "b" -> "B"
      [] c = "c" -> "C"
      [] OTHER -> c

ToUpperCase(s) == [i \in 1..Len(s) |-> UpperChar(s[i])]

(***************************************************************************)
(* The 2D context.  What the browser parses: an assignment of a string it  *)
(* cannot parse to fillStyle, strokeStyle, font or filter is ignored.      *)
(***************************************************************************)
TranslucentColors == {"#00000000", "#00000088", "#00000099", "#000000aa"}
CssColors == {"white", "#000000", "#555555", "#999999", "#aaaaaa", "#dddddd",
              "#ff0000", "#00ff00", "#0000ff",
              "#ff3333", "#eeee00", "#11ee11", "#11eeee", "#0055ff", "#ff55ff"}
             \cup TranslucentColors
CssFonts == {"10px sans-serif", "34px Besley", "40px Besley", "bold 18px Besley",
             "bold 25px Besley", "120px Bangers", "19px Bangers", "24px Bangers",
             "28px Bangers", "32px Bangers", "20px Bangers", "30px Bangers",
             "45px Source Sans Pro"}
CssFilters == {"none", "blur(2px)", "grayscale(1)"}

Color(css) == [kind |-> "color", css |-> css]
IsPaint(p) == p.kind = "gradient" \/ p.css \in CssColors
IsOpaque(p) == p.kind = "color" /\ p.css \in CssColors \ TranslucentColors

\* The transform: a user-space point (x, y) lands on the surface at
\* (tx + s * x, ty + s * y); s is 1, or -1 after a half turn.
Identity == [s |-> 1, tx |-> 0, ty |-> 0]

\* document.createElement("canvas") with its width and height set.
NewCanvas(w, h) ==
    [width |-> w, height |-> h,
     fillStyle |-> Color("#000000"), strokeStyle |-> Color("#000000"),
     lineWidth |-> 1, font |-> "10px sans-serif", textAlign |-> "start",
     filter |-> "none", tf |-> Identity, stack |-> <<>>, path |-> <<>>,
     pixels |-> <<>>]

\* The drawing state: what save() pushes and what a drawing call reads.
DrawState(g) ==
    [fillStyle |-> g.fillStyle, strokeStyle |-> g.strokeStyle,
     lineWidth |-> g.lineWidth, font |-> g.font, textAlign |-> g.textAlign,
     filter |-> g.filter, tf |-> g.tf]

SetFillStyle(g, p) == IF IsPaint(p) THEN [g EXCEPT !.fillStyle = p] ELSE g
SetStrokeStyle(g, p) == IF IsPaint(p) THEN [g EXCEPT !.strokeStyle = p] ELSE g
SetFont(g, f) == IF f \in CssFonts THEN [g EXCEPT !.font = f] ELSE g
SetFilter(g, f) == IF f \in CssFilters THEN [g EXCEPT !.filter = f] ELSE g
SetTextAlign(g, a) == [g EXCEPT !.textAlign = a]
SetLineWidth(g, n) == [g EXCEPT !.lineWidth = n]

Save(g) == [g EXCEPT !.stack = Append(g.stack, DrawState(g))]
Restore(g) ==
    IF g.stack = <<>> THEN g
    ELSE LET s == g.stack[Len(g.stack)] IN
         [g EXCEPT !.fillStyle = s.fillStyle, !.strokeStyle = s.strokeStyle,
                   !.lineWidth = s.lineWidth, !.font = s.font,
                   !.textAlign = s.textAlign, !.filter = s.filter, !.tf = s.tf,
                   !.stack = SubSeq(g.stack, 1, Len(g.stack) - 1)]
Translate(g, x, y) ==
    [g EXCEPT !.tf = [s |-> g.tf.s, tx |-> g.tf.tx + g.tf.s * x,
                      ty |-> g.tf.ty + g.tf.s * y]]
\* rotate(Math.PI)
RotatePi(g) == [g EXCEPT !.tf = [s |-> 0 - g.tf.s, tx |-> g.tf.tx, ty |-> g.tf.ty]]

\* One drawing operation on the surface.  tag names the block of the
\* renderer that issued it.
Paint(g, tag, op, args) ==
    LET e == [op |-> op, tag |-> tag, a |-> args, st |-> DrawState(g)]
        covers == /\ op = "fillRect"
                  /\ args = [x |-> 0, y |-> 0, w |-> T(g.width), h |-> T(g.height)]
                  /\ g.tf = Identity
                  /\ g.filter = "none"
                  /\ IsOpaque(g.fillStyle)
    IN [g EXCEPT !.pixels = IF covers THEN <<e>> ELSE Append(g.pixels, e)]

FillRect(g, tag, x, y, w, h) ==
    Paint(g, tag, "fillRect", [x |-> x, y |-> y, w |-> w, h |-> h])
FillText(g, tag, str, x, y) ==
    Paint(g, tag, "fillText", [text |-> str, x |-> x, y |-> y])
DrawImage(g, tag, img, x, y, w, h) ==
    Paint(g, tag, "drawImage", [image |-> img, x |-> x, y |-> y, w |-> w, h |-> h])

BeginPath(g) == [g EXCEPT !.path = <<>>]
MoveTo(g, x, y) == [g EXCEPT !.path = Append(g.path, <<"M", x, y>>)]
LineTo(g, x, y) == [g EXCEPT !.path = Append(g.path, <<"L", x, y>>)]
ArcTo(g, x1, y1, x2, y2, r) ==
    [g EXCEPT !.path = Append(g.path, <<"A", x1, y1, x2, y2, r>>)]
Stroke(g, tag) == Paint(g, tag, "stroke", [path |-> g.path])
Fill(g, tag) == Paint(g, tag, "fill", [path |-> g.path])

\* createLinearGradient and addColorStop; an offset is <<numerator, denominator>>.
CreateLinearGradient(x0, y0, x1, y1) ==
    [kind |-> "gradient", x0 |-> x0, y0 |-> y0, x1 |-> x1, y1 |-> y1, stops |-> <<>>]
AddColorStop(gr, off, css) == [gr EXCEPT !.stops = Append(gr.stops, <<off, css>>)]

\* The alpha byte of a color, and the alpha a gradient paints with at the
\* fraction p = <<numerator, denominator>> of its length, as a fraction: the
\* first stop's before the first stop, the last stop's after the last, and in
\* between the linear interpolation of the two neighbouring stops.
AlphaOf(css) ==
    CASE css = "#00000000" -> 0
      [] css = "#00000088" -> 136
      [] css = "#00000099" -> 153
      [] css = "#000000aa" -> 170
      [] OTHER -> 255
FracLeq(a, b) == a[1] * b[2] <= b[1] * a[2]
RECURSIVE AlphaFrom(_, _, _)
AlphaFrom(stops, k, p) ==
    IF FracLeq(p, stops[k][1]) THEN <<AlphaOf(stops[k][2]), 1>>
    ELSE IF k = Len(stops) THEN <<AlphaOf(stops[k][2]), 1>>
    ELSE IF FracLeq(stops[k + 1][1], p) THEN AlphaFrom(stops, k + 1, p)
    ELSE LET o == stops[k][1]
             q == stops[k + 1][1]
             a == AlphaOf(stops[k][2])
             b == AlphaOf(stops[k + 1][2])
             num == (p[1] * o[2] - o[1] * p[2]) * q[2]
             den == p[2] * (q[1] * o[2] - o[1] * q[2])
         IN <<a * den + (b - a) * num, den>>
GradientAlpha(gr, p) == AlphaFrom(gr.stops, 1, p)

\* for (let i = 0; i < lines.length; i++) gl.fillText(lines[i], x, y0 + i * dy)
RECURSIVE FillLines(_, _, _, _, _, _, _)
FillLines(g, tag, lines, i, x, y0, dy) ==
    IF i >= Len(lines) THEN g
    ELSE FillLines(FillText(g, tag, lines[i + 1], x, y0 + T(i * dy)),
                   tag, lines, i + 1, x, y0, dy)

(***************************************************************************)
(* renderCanvas (App.tsx 353-505), block by block.                         *)
(***************************************************************************)
\* gl.fillStyle = "white"; gl.fillRect(0, 0, w, h)
DrawBase(g) ==
    FillRect(SetFillStyle(g, Color("white")), "base", 0, 0, T(g.width), T(g.height))

\* a background block that touches the filter only when there is a photo,
\* and leaves it set
DrawBackground_FilterWithPhoto(g, card, convertedImage) ==
    IF convertedImage # None
    THEN DrawImage(SetFilter(g, OrStr(card.imageFilter, "none")), "photo",
                   convertedImage[1],
                   T(Nullish(card.imageX, 0)), T(Nullish(card.imageY, 0)),
                   T(Nullish(card.imageWidth, g.width)),
                   T(Nullish(card.imageHeight, g.height)))
    ELSE g

\* a background block that leaves the card's filter set
DrawBackground_NoReset(g, card, convertedImage) ==
    LET g1 == SetFilter(g, OrStr(card.imageFilter, "none"))
    IN IF convertedImage # None
       THEN DrawImage(g1, "photo", convertedImage[1],
                      T(Nullish(card.imageX, 0)), T(Nullish(card.imageY, 0)),
                      T(Nullish(card.imageWidth, g.width)),
                      T(Nullish(card.imageHeight, g.height)))
       ELSE g1

\* Draw background
DrawBackground(g, card, convertedImage) ==
    LET g1 == SetFilter(g, OrStr(card.imageFilter, "none"))
        g2 == IF convertedImage # None
              THEN DrawImage(g1, "photo", convertedImage[1],
                             T(Nullish(card.imageX, 0)), T(Nullish(card.imageY, 0)),
                             T(Nullish(card.imageWidth, g.width)),
                             T(Nullish(card.imageHeight, g.height)))
              ELSE g1
    IN SetFilter(g2, "none")

\* gradients whose top one fades out below the middle of the surface
DrawGradients_WideTop(g, card) ==
    IF ~TruthyBool(card.noGradient)
    THEN LET w == g.width
             h == g.height
             bottomGradient ==
                 AddColorStop(AddColorStop(CreateLinearGradient(0, 0, 0, T(h)),
                                           <<65, 100>>, "#00000000"),
                              <<1, 1>>, "#00000088")
             g1 == FillRect(SetFillStyle(g, bottomGradient), "gradientBottom",
                            0, 0, T(w), T(h))
             topGradient ==
                 AddColorStop(AddColorStop(CreateLinearGradient(0, 0, 0, T(h)),
                                           <<0, 1>>, "#00000088"),
                              <<65, 100>>, "#00000000")
         IN FillRect(SetFillStyle(g1, topGradient), "gradientTop", 0, 0, T(w), T(h))
    ELSE g

\* Draw gradients
DrawGradients(g, card) ==
    IF ~TruthyBool(card.noGradient)
    THEN LET w == g.width
             h == g.height
             bottomGradient ==
                 AddColorStop(AddColorStop(CreateLinearGradient(0, 0, 0, T(h)),
                                           <<65, 100>>, "#00000000"),
                              <<1, 1>>, "#00000088")
             g1 == FillRect(SetFillStyle(g, bottomGradient), "gradientBottom",
                            0, 0, T(w), T(h))
             topGradient ==
                 AddColorStop(AddColorStop(CreateLinearGradient(0, 0, 0, T(h)),
                                           <<0, 1>>, "#00000088"),
                              <<35, 100>>, "#00000000")
         IN FillRect(SetFillStyle(g1, topGradient), "gradientTop", 0, 0, T(w), T(h))
    ELSE g

\* Draw main text            (h * 0.7 is 7 * h tenths of a pixel)
DrawMainText(g, card) ==
    IF TruthyText(card.text)
    THEN LET w == g.width
             h == g.height
             textColor == OrStr(card.textColor, "white")
             lines == Split(card.text[1])
             g1 == FillRect(SetFillStyle(g, Color("#000000aa")), "textBacking",
                            0, 7 * h - T(36), T(w), T(Len(lines) * 42 + 14))
             g2 == SetFillStyle(SetFont(SetTextAlign(g1, "center"),
                                        OrStr(card.textFont, "34px Besley")),
                                Color(textColor))
         IN FillLines(g2, "textLine", lines, 0, T(w) \div 2, 7 * h + T(5), 42)
    ELSE g

\* a cornerWidth that stops growing after the first character
cornerWidth_Capped(card) == 90 + (IF Len(card.value[1]) > 1 THEN 1 ELSE Len(card.value[1])) * 50

\* a cornerWidth that grows with the card's amount
cornerWidth_PlusAmount(card) ==
    90 + Len(card.value[1]) * 50 + (IF card.amount = None THEN 0 ELSE card.amount[1])

\* let cornerWidth = 90 + card.value.length * 50
cornerWidth(card) == 90 + Len(card.value[1]) * 50

\* a description whose copy is turned about the top right corner
DrawDescription_MirrorTop(g, card, cw) ==
    IF TruthyText(card.description)
    THEN LET split == Split(card.description[1])
             lines == [i \in 1..Len(split) |-> ToUpperCase(split[i])]
             g1 == SetFont(SetTextAlign(SetFillStyle(g, Color("#dddddd")), "left"),
                           "bold 18px Besley")
             g2 == FillLines(g1, "description", lines, 0, T(cw + 35), T(70), 27)
             g3 == RotatePi(Translate(Save(g2), T(g.width), 0))
             g4 == FillLines(g3, "descriptionMirror", lines, 0, T(cw + 35), T(70), 27)
         IN Restore(g4)
    ELSE g

\* if (card.description) { ... }: the lines, and their copy under
\* translate(w, h), rotate(Math.PI)
DrawDescription(g, card, cw) ==
    IF TruthyText(card.description)
    THEN LET w == g.width
             h == g.height
             split == Split(card.description[1])
             lines == [i \in 1..Len(split) |-> ToUpperCase(split[i])]
             g1 == SetFont(SetTextAlign(SetFillStyle(g, Color("#dddddd")), "left"),
                           "bold 18px Besley")
             g2 == FillLines(g1, "description", lines, 0, T(cw + 35), T(70), 27)
             g3 == RotatePi(Translate(Save(g2), T(w), T(h)))
             g4 == FillLines(g3, "descriptionMirror", lines, 0, T(cw + 35), T(70), 27)
         IN Restore(g4)
    ELSE g

\* let rainbow = gl.createLinearGradient(0, 0, 0, h) and its seven stops
Rainbow(h) ==
    LET r0 == CreateLinearGradient(0, 0, 0, T(h))
        r1 == AddColorStop(r0, <<0, 1>>, "#ff3333")
        r2 == AddColorStop(r1, <<1, 6>>, "#eeee00")
        r3 == AddColorStop(r2, <<2, 6>>, "#11ee11")
        r4 == AddColorStop(r3, <<3, 6>>, "#11eeee")
        r5 == AddColorStop(r4, <<4, 6>>, "#0055ff")
        r6 == AddColorStop(r5, <<5, 6>>, "#ff55ff")
    IN AddColorStop(r6, <<6, 6>>, "#ff3333")

\* a border paint that knows the rainbow and the default only
BorderPaint_IgnoresColor(card, h) ==
    IF card.borderColor = Some("rainbow") THEN Rainbow(h) ELSE Color("white")

\* borderColor === "rainbow" ? rainbow : borderColor
BorderPaint(card, h) ==
    LET borderColor == OrStr(card.borderColor, "white")
    IN IF borderColor = "rainbow" THEN Rainbow(h) ELSE Color(borderColor)

\* Draw border
DrawBorder(g, card) ==
    LET w == T(g.width)
        h == T(g.height)
        AMOUNT == T(50)
        ROUNDING == T(40)
        g1 == SetLineWidth(SetFillStyle(SetStrokeStyle(g, BorderPaint(card, g.height)),
                                        BorderPaint(card, g.height)), 50)
        p1 == LineTo(LineTo(MoveTo(BeginPath(g1), 0, 0), w, 0), w - AMOUNT, 0)
        p2 == ArcTo(p1, w, 0, w, AMOUNT, ROUNDING)
        p3 == LineTo(LineTo(p2, w, h), w, h - AMOUNT)
        p4 == ArcTo(p3, w, h, w - AMOUNT, h, ROUNDING)
        p5 == LineTo(LineTo(p4, 0, h), AMOUNT, h)
        p6 == ArcTo(p5, 0, h, 0, h - AMOUNT, ROUNDING)
        p7 == LineTo(LineTo(p6, 0, 0), 0, AMOUNT)
        p8 == ArcTo(p7, 0, 0, AMOUNT, 0, ROUNDING)
    IN Stroke(<<g1, p1, p2, p3, p4, p5, p6, p7, p8>>[9], "border")

\* Draw border corners
DrawBorderCorners(g, cw) ==
    LET w == T(g.width)
        h == T(g.height)
        CORNER_RADIUS == T(5)
        TOP_CORNER_W == T(cw)
        TOP_CORNER_H == T(180)
        t1 == LineTo(MoveTo(BeginPath(g), 0, 0), TOP_CORNER_W, 0)
        t2 == LineTo(t1, TOP_CORNER_W, TOP_CORNER_H - CORNER_RADIUS)
        t3 == ArcTo(t2, TOP_CORNER_W, TOP_CORNER_H,
                    TOP_CORNER_W - CORNER_RADIUS, TOP_CORNER_H, T(20))
        t4 == Fill(LineTo(t3, 0, TOP_CORNER_H), "badgeTopLeft")
        BOTTOM_CORNER_W == T(cw)
        BOTTOM_CORNER_H == T(180)
        b1 == LineTo(MoveTo(BeginPath(t4), w, h), w - BOTTOM_CORNER_W, h)
        b2 == LineTo(b1, w - BOTTOM_CORNER_W, h - BOTTOM_CORNER_H + CORNER_RADIUS)
        b3 == ArcTo(b2, w - BOTTOM_CORNER_W, h - BOTTOM_CORNER_H,
                    w - BOTTOM_CORNER_W + CORNER_RADIUS, h - BOTTOM_CORNER_H, T(20))
    IN Fill(LineTo(<<t1, t2, t3, t4, b1, b2, b3>>[7], w, h - BOTTOM_CORNER_H),
            "badgeBottomRight")

\* Draw corner value
DrawCornerValue(g, card, cw) ==
    LET w == T(g.width)
        h == T(g.height)
        borderTextColor == OrStr(card.borderTextColor, "#555555")
        g1 == SetFont(SetFillStyle(SetTextAlign(g, "center"), Color(borderTextColor)),
                      "120px Bangers")
        g2 == FillText(g1, "value", card.value[1], T(cw) \div 2, T(117))
        g3 == RotatePi(Translate(Save(g2), w - T(cw) \div 2, h - T(117)))
    IN Restore(FillText(g3, "valueMirror", card.value[1], 0, 0))

\* a caption font chosen by the caption's length alone
CaptionFont_CaptionOnly(card) ==
    IF Len(card.valueDescription[1]) > 10 THEN "19px Bangers"
    ELSE IF Len(card.valueDescription[1]) > 7 THEN "24px Bangers"
    ELSE IF Len(card.valueDescription[1]) > 5 THEN "28px Bangers"
    ELSE "32px Bangers"

\* the font of the corner value description
CaptionFont(card) ==
    IF Len(card.value[1]) = 1 /\ Len(card.valueDescription[1]) > 10
    THEN "19px Bangers"
    ELSE IF Len(card.valueDescription[1]) > 7 THEN "24px Bangers"
    ELSE IF Len(card.valueDescription[1]) > 5 THEN "28px Bangers"
    ELSE "32px Bangers"

\* Draw corner value description
DrawCornerValueDescription(g, card, cw) ==
    IF TruthyText(card.valueDescription)
    THEN LET w == T(g.width)
             h == T(g.height)
             borderTextSmallColor == OrStr(card.borderSmallTextColor, "#999999")
             g1 == SetFont(SetFillStyle(g, Color(borderTextSmallColor)), CaptionFont(card))
             g2 == FillText(g1, "caption", card.valueDescription[1], T(cw) \div 2, T(160))
             g3 == RotatePi(Translate(Save(g2), w - T(cw) \div 2, h - T(160)))
         IN Restore(FillText(g3, "captionMirror", card.valueDescription[1], 0, 0))
    ELSE g

\* card.value.length of an undefined value is a TypeError (line 402)
renderRaises(card) == card.value = None

\* renderCanvas with the border stroked before the description is drawn
renderCanvas_BorderFirst(canvas, card, convertedImage) ==
    LET g1 == DrawBase(canvas)
        g2 == DrawBackground(g1, card, convertedImage)
        g3 == DrawGradients(g2, card)
        g4 == DrawMainText(g3, card)
    IN IF renderRaises(card) THEN <<g1, g2, g3, g4>>[4]
       ELSE LET cw == cornerWidth(card)
                g5 == DrawBorder(g4, card)
                g6 == DrawDescription(g5, card, cw)
                g7 == DrawBorderCorners(g6, cw)
                g8 == DrawCornerValue(g7, card, cw)
            IN <<g1, g2, g3, g4, g5, g6, g7, g8,
                 DrawCornerValueDescription(g8, card, cw)>>[9]

\* renderCanvas: the blocks in the order they run; the tuples list the
\* surface after each block in that order, their last element is the result
renderCanvas(canvas, card, convertedImage) ==
    LET g1 == DrawBase(canvas)
        g2 == DrawBackground(g1, card, convertedImage)
        g3 == DrawGradients(g2, card)
        g4 == DrawMainText(g3, card)
    IN IF renderRaises(card) THEN <<g1, g2, g3, g4>>[4]
       ELSE LET cw == cornerWidth(card)
                g5 == DrawDescription(g4, card, cw)
                g6 == DrawBorder(g5, card)
                g7 == DrawBorderCorners(g6, cw)
                g8 == DrawCornerValue(g7, card, cw)
            IN <<g1, g2, g3, g4, g5, g6, g7, g8,
                 DrawCornerValueDescription(g8, card, cw)>>[9]

(***************************************************************************)
(* CardForm.updateCanvas of the 800x1200 revision (App.tsx 925-1081): the  *)
(* blocks that differ from renderCanvas.  The base fill, the corner badges *)
(* and the corner value are the same statements.                           *)
(***************************************************************************)
\* Draw background
DrawBackground800(g, values, image) ==
    IF image # None
    THEN DrawImage(g, "photo", image[1],
                   T(Nullish(values.imageX, 0)), T(Nullish(values.imageY, 0)),
                   T(Nullish(values.imageWidth, g.width)),
                   T(Nullish(values.imageHeight, g.height)))
    ELSE g

\* Draw gradients
DrawGradients800(g, values) ==
    IF ~TruthyBool(values.noGradient)
    THEN LET w == g.width
             h == g.height
             bottomGradient ==
                 AddColorStop(AddColorStop(CreateLinearGradient(0, 0, 0, T(h)),
                                           <<5, 10>>, "#00000000"),
                              <<1, 1>>, "#00000099")
             g1 == FillRect(SetFillStyle(g, bottomGradient), "gradientBottom",
                            0, 0, T(w), T(h))
             topGradient ==
                 AddColorStop(AddColorStop(CreateLinearGradient(0, 0, 0, T(h)),
                                           <<0, 1>>, "#00000099"),
                              <<5, 10>>, "#00000000")
         IN FillRect(SetFillStyle(g1, topGradient), "gradientTop", 0, 0, T(w), T(h))
    ELSE g

\* Draw main text
DrawMainText800(g, values) ==
    IF TruthyText(values.text)
    THEN LET w == g.width
             h == g.height
             textColor == OrStr(values.textColor, "white")
             lines == Split(values.text[1])
             g1 == FillRect(SetFillStyle(g, Color("#000000aa")), "textBacking",
                            0, 7 * h - T(43), T(w), T(Len(lines) * 55 + 10))
             g2 == SetFillStyle(SetFont(SetTextAlign(g1, "center"),
                                        OrStr(values.textFont, "40px Besley")),
                                Color(textColor))
         IN FillLines(g2, "textLine", lines, 0, T(w) \div 2, 7 * h + T(5), 55)
    ELSE g

\* let cornerWidth = 80 + form.values.value.length * 60
cornerWidth800(values) == 80 + Len(values.value[1]) * 60

DrawDescription800(g, values, cw) ==
    IF TruthyText(values.description)
    THEN LET w == g.width
             h == g.height
             split == Split(values.description[1])
             lines == [i \in 1..Len(split) |-> ToUpperCase(split[i])]
             g1 == SetFont(SetTextAlign(SetFillStyle(g, Color("#aaaaaa")), "left"),
                           "bold 25px Besley")
             g2 == FillLines(g1, "description", lines, 0, T(cw + 35), T(70), 27)
             g3 == RotatePi(Translate(Save(g2), T(w), T(h)))
             g4 == FillLines(g3, "descriptionMirror", lines, 0, T(cw + 35), T(70), 27)
         IN Restore(g4)
    ELSE g

\* Draw border
DrawBorder800(g, values) ==
    LET w == T(g.width)
        h == T(g.height)
        AMOUNT == T(30)
        ROUNDING == T(40)
        g1 == SetLineWidth(SetFillStyle(SetStrokeStyle(g, BorderPaint(values, g.height)),
                                        BorderPaint(values, g.height)), 30)
        p1 == LineTo(LineTo(MoveTo(BeginPath(g1), 0, 0), w, 0), w - AMOUNT, 0)
        p2 == ArcTo(p1, w, 0, w, AMOUNT, ROUNDING)
        p3 == LineTo(LineTo(p2, w, h), w, h - AMOUNT)
        p4 == ArcTo(p3, w, h, w - AMOUNT, h, ROUNDING)
        p5 == LineTo(LineTo(p4, 0, h), AMOUNT, h)
        p6 == ArcTo(p5, 0, h, 0, h - AMOUNT, ROUNDING)
        p7 == LineTo(LineTo(p6, 0, 0), 0, AMOUNT)
        p8 == ArcTo(p7, 0, 0, AMOUNT, 0, ROUNDING)
    IN Stroke(<<g1, p1, p2, p3, p4, p5, p6, p7, p8>>[9], "border")

CaptionFont800(values) ==
    IF Len(values.value[1]) = 1 /\ Len(values.valueDescription[1]) > 10
    THEN "20px Bangers"
    ELSE "30px Bangers"

\* Draw corner value description
DrawCornerValueDescription800(g, values, cw) ==
    IF TruthyText(values.valueDescription)
    THEN LET w == T(g.width)
             h == T(g.height)
             g1 == SetFont(SetFillStyle(g, Color("#aaaaaa")), CaptionFont800(values))
             g2 == FillText(g1, "caption", values.valueDescription[1], T(cw) \div 2, T(160))
             g3 == RotatePi(Translate(Save(g2), w - T(cw) \div 2, h - T(160)))
         IN Restore(FillText(g3, "captionMirror", values.valueDescription[1], 0, 0))
    ELSE g

updateCanvas800(canvas, values, image) ==
    LET g1 == DrawBase(canvas)
        g2 == DrawBackground800(g1, values, image)
        g3 == DrawGradients800(g2, values)
        g4 == DrawMainText800(g3, values)
    IN IF renderRaises(values) THEN <<g1, g2, g3, g4>>[4]
       ELSE LET cw == cornerWidth800(values)
                g5 == DrawDescription800(g4, values, cw)
                g6 == DrawBorder800(g5, values)
                g7 == DrawBorderCorners(g6, cw)
                g8 == DrawCornerValue(g7, values, cw)
            IN <<g1, g2, g3, g4, g5, g6, g7, g8,
                 DrawCornerValueDescription800(g8, values, cw)>>[9]

(***************************************************************************)
(* The state.                                                              *)
(*   rPc, rCard, rImage, rCanvas, rRaised: one call of the renderer, its   *)
(*   arguments and the surface it drew on.                                 *)
(*   cardStore, imageStore: the database's "card" and "image" object      *)
(*   stores, each a sequence of records in key order.                      *)
(*   ePc, allCards, eI, eCard, zip, rerenderCanvas, rerendered, result,    *)
(*   saved, label, labelTimer: the Dashboard's card export handler, its    *)
(*   locals (eI and eCard are its i and card), the indices it has          *)
(*   rendered, the download it handed to saveAs and the progress label     *)
(*   with its clearing timer.                                              *)
(*   formValues, imageRef, canvasRef, loads, timers, fRendered: a mounted  *)
(*   CardForm: form.values, imageRef.current, the preview canvas, the runs *)
(*   of the imageId listener that are awaiting the store or the decoder,   *)
(*   the pending setTimeout(updateCanvas) callbacks, and whether the last  *)
(*   step drew the preview.                                                *)
(*   dCard, puts: the Dashboard's selected card (the form's props.card)    *)
(*   and the cards its CardForm onChange is putting into the store.        *)
(*   requests, minted: the "New card", "Duplicate" and "Remove" handlers   *)
(*   that are awaiting the store, each with the card it holds, and the     *)
(*   card ids nanoid() has returned so far or that were in the store at    *)
(*   the start.                                                            *)
(*   app, uploads, removals: which revision of the app runs ("indexedDB":  *)
(*   App.tsx, "localStorage": unnamed/part_000), and the runs of its image *)
(*   upload and image "Remove" handlers, each with its files or id and its *)
(*   position; a run that has ended stays, at "done".  In the localStorage *)
(*   revision imageStore is state.files, which an effect mirrors to        *)
(*   localStorage.                                                         *)
(* The Dashboard's `cards' and `images' lists, which refreshCards and      *)
(* refreshImages recompute from the stores for the view, are not part of   *)
(* the state.                                                              *)
(***************************************************************************)
VARIABLES rPc, rCard, rImage, rCanvas, rRaised,
          cardStore, imageStore,
          ePc, allCards, eI, eCard, zip, rerenderCanvas, rerendered, result, saved,
          label, labelTimer,
          formValues, imageRef, canvasRef, loads, timers, fRendered,
          dCard, puts, requests, minted,
          app, uploads, removals

renderVars == <<rPc, rCard, rImage, rCanvas, rRaised>>
storeVars == <<cardStore, imageStore>>
exportVars == <<ePc, allCards, eI, eCard, zip, rerenderCanvas, rerendered, result, saved,
                label, labelTimer>>
formVars == <<formValues, imageRef, canvasRef, loads, timers, fRendered>>
imageVars == <<app, uploads, removals>>
dashVars == <<dCard, puts, requests, minted, imageVars>>
vars == <<renderVars, storeVars, exportVars, formVars, dashVars>>

(***************************************************************************)
(* The cards and images the checks draw from.                              *)
(***************************************************************************)
MaxValueLen == 2
MaxLines == 2

\* interface ImageFile
ImageFile(id, name, type, base64) ==
    [id |-> id, name |-> name, type |-> type, base64 |-> base64]

\* imageFileToDataUrl
imageFileToDataUrl(image) == "data:" \o image.type \o ";base64," \o image.base64

\* What the browser can decode (img.onload) and what it cannot (img.onerror).
DecodableSrc == {"data:image/png;base64,iVBORw0KGgo=",
                 "data:image/png;base64,iVBORw0KGgoA"}

\* The HTMLImageElement imageFileToImage resolves with; CardForm tags it
\* with the imageId it was loaded for.
Bitmap(image) == [src |-> imageFileToDataUrl(image), imageId |-> None]

PngA == ImageFile("a", "a.png", "image/png", "iVBORw0KGgo=")
PngC == ImageFile("c", "photo.png", "image/png", "iVBORw0KGgoA")
TextB == ImageFile("b", "notes.txt", "text/plain", "bm90IGFuIGltYWdl")

TextOf(n, c) == [i \in 1..n |-> c]
\* k lines "ab", joined by line breaks
RECURSIVE LinesOf(_)
LinesOf(k) == IF k <= 1 THEN <<"a", "b">> ELSE LinesOf(k - 1) \o <<"\n", "a", "b">>

ValueTexts == {TextOf(n, "3") : n \in 0..MaxValueLen}
CaptionLens == {0, 5, 6, 8, 11}
CaptionTexts == {TextOf(n, "c") : n \in CaptionLens}
BodyTexts == {None, Some(<<>>)} \cup {Some(LinesOf(k)) : k \in 1..MaxLines}

\* let newCard = { value: "", valueDescription: "", id, imageX: 0, imageY: 0,
\*                 imageHeight: 1200, imageWidth: 800 }
NewCard(id) ==
    [id |-> id, amount |-> None, imageId |-> None,
     imageHeight |-> Some(1200), imageWidth |-> Some(800),
     imageX |-> Some(0), imageY |-> Some(0), imageFilter |-> None,
     value |-> Some(<<>>), valueDescription |-> Some(<<>>),
     text |-> None, textFont |-> None, textColor |-> None,
     borderColor |-> None, borderTextColor |-> None, borderSmallTextColor |-> None,
     noGradient |-> None, description |-> None, base64 |-> None]

Placements == {[x |-> None, y |-> None, w |-> None, h |-> None],
               [x |-> Some(0), y |-> Some(0), w |-> Some(800), h |-> Some(1200)],
               [x |-> Some(-40), y |-> Some(25), w |-> Some(400), h |-> Some(600)]}

\* Every combination of the fields that decide which layers are drawn and
\* where (value, valueDescription, text, description, noGradient), of
\* imageFilter and of borderColor, the other fields as "New card" leaves them.
ContentCards ==
    {[NewCard(1) EXCEPT
        !.value = Some(v), !.valueDescription = Some(vd), !.text = t,
        !.description = d, !.imageFilter = f, !.noGradient = ng,
        !.borderColor = bc] :
        v \in ValueTexts, vd \in CaptionTexts, t \in BodyTexts, d \in BodyTexts,
        f \in {None, Some(""), Some("blur(2px)")}, ng \in {None, Some(TRUE)},
        bc \in {None, Some(""), Some("rainbow"), Some("#ff0000")}}

\* A card with every layer, and every combination of its remaining colors,
\* its font and its image placement; the same for the card "New card" makes.
FullCard ==
    [NewCard(1) EXCEPT
        !.value = Some(<<"3">>), !.valueDescription = Some(TextOf(6, "c")),
        !.text = Some(LinesOf(2)), !.description = Some(LinesOf(2)),
        !.imageFilter = Some("blur(2px)")]

StyleCards ==
    {[c EXCEPT
        !.borderTextColor = btc, !.borderSmallTextColor = bsc,
        !.textColor = tc, !.textFont = tf,
        !.imageX = pl.x, !.imageY = pl.y, !.imageWidth = pl.w, !.imageHeight = pl.h] :
        c \in {FullCard, NewCard(1)},
        btc \in {None, Some(""), Some("#00ff00")},
        bsc \in {None, Some(""), Some("#0000ff")},
        tc \in {None, Some(""), Some("#ff0000")},
        tf \in {None, Some(""), Some("45px Source Sans Pro")},
        pl \in Placements}

\* { value: "3", valueDescription: "", text: "", description: "" }, no
\* other field set
MinimalCard ==
    [id |-> 1, amount |-> None, imageId |-> None,
     imageHeight |-> None, imageWidth |-> None, imageX |-> None, imageY |-> None,
     imageFilter |-> None, value |-> Some(<<"3">>), valueDescription |-> Some(<<>>),
     text |-> Some(<<>>), textFont |-> None, textColor |-> None,
     borderColor |-> None, borderTextColor |-> None, borderSmallTextColor |-> None,
     noGradient |-> None, description |-> Some(<<>>), base64 |-> None]

RenderCards == ContentCards \cup StyleCards \cup {MinimalCard}

(***************************************************************************)
(* The object stores (idb): records in key order; a card's id is a number  *)
(* standing for its nanoid token, an image's id a string.                  *)
(***************************************************************************)
\* database.get(store, key): the record, or undefined
Get(store, key) ==
    IF \E k \in 1..Len(store) : store[k].id = key
    THEN Some(store[CHOOSE k \in 1..Len(store) : store[k].id = key])
    ELSE None

\* database.put("card", record): replaces the record of that key, or adds it
\* at its place in key order
Put(store, rec) ==
    IF \E k \in 1..Len(store) : store[k].id = rec.id
    THEN [k \in 1..Len(store) |-> IF store[k].id = rec.id THEN rec ELSE store[k]]
    ELSE LET below == Cardinality({k \in 1..Len(store) : store[k].id < rec.id})
         IN SubSeq(store, 1, below) \o <<rec>> \o SubSeq(store, below + 1, Len(store))

(***************************************************************************)
(* A string holding an image: a data URL has a header before its comma,    *)
(* raw base64 has none.  The body is what the bytes decode to.             *)
(***************************************************************************)
\* canvas.toDataURL()
toDataURL(canvas) ==
    [header |-> Some("data:image/png;base64"),
     body |-> [width |-> canvas.width, height |-> canvas.height,
               pixels |-> canvas.pixels]]

TruthyUrl(o) == o # None

\* headerIndex > 0 ? card.base64.substring(headerIndex + 1) : card.base64
StripHeader(url) ==
    IF url.header # None /\ url.header[1] # ""
    THEN [header |-> None, body |-> url.body]
    ELSE url

(***************************************************************************)
(* JSZip: the archive is the sequence of its entries, in the order they    *)
(* were first added; file(name, data) replaces an entry of the same name.  *)
(***************************************************************************)
\* file(name, data) putting a new entry first
ZipFile_Prepend(z, name, data) == <<[name |-> name, data |-> data]>> \o z

ZipFile(z, name, data) ==
    IF \E k \in 1..Len(z) : z[k].name = name
    THEN [k \in 1..Len(z) |-> IF z[k].name = name
                              THEN [name |-> name, data |-> data] ELSE z[k]]
    ELSE Append(z, [name |-> name, data |-> data])

\* the copies named from 1 on: "i-1.png" for the first extra copy's place
RECURSIVE ZipCopies_SuffixAlways(_, _, _, _, _)
ZipCopies_SuffixAlways(z, idx, base64, n, amount) ==
    IF n >= amount THEN z
    ELSE ZipCopies_SuffixAlways(
             ZipFile(z, ToString(idx) \o "-" \o ToString(n) \o ".png", base64),
             idx, base64, n + 1, amount)

\* for (let n = 0; n < (card.amount || 1); n++) zip.file(...)
RECURSIVE ZipCopies(_, _, _, _, _)
ZipCopies(z, idx, base64, n, amount) ==
    IF n >= amount THEN z
    ELSE ZipCopies(ZipFile(z, IF n = 0
                              THEN ToString(idx) \o ".png"
                              ELSE ToString(idx) \o "-" \o ToString(n) \o ".png",
                           base64),
                   idx, base64, n + 1, amount)

\* if (card.base64) { ... }: the archive entries of the card at index idx
ZipCard(z, idx, c) ==
    IF TruthyUrl(c.base64)
    THEN ZipCopies(z, idx, StripHeader(c.base64[1]), 0,
                   IF TruthyNum(c.amount) THEN c.amount[1] ELSE 1)
    ELSE z

(***************************************************************************)
(* The Dashboard's card "Export as zip" handler (App.tsx 201-258).  Each   *)
(* action is the code between two awaits.                                  *)
(***************************************************************************)
ExportIdle ==
    /\ ePc = "idle"
    /\ allCards = <<>>
    /\ eI = 0
    /\ eCard = NewCard(0)
    /\ zip = <<>>
    /\ rerenderCanvas = NewCanvas(732, 1039)
    /\ rerendered = {}
    /\ result = None
    /\ saved = None
    /\ label = ""
    /\ labelTimer = FALSE

\* The loop from index idx, with archive z, up to its next await: the cards
\* without an imageId are zipped on the way.  Yields the handler's position.
RECURSIVE LoopFrom(_, _, _)
LoopFrom(all, idx, z) ==
    IF idx >= Len(all)
    THEN [pc |-> "generateAsync", i |-> idx, zip |-> z,
          card |-> IF Len(all) = 0 THEN NewCard(0) ELSE all[Len(all)],
          label |-> IF Len(all) = 0 THEN ""
                    ELSE "Rendering card " \o ToString(Len(all)) \o "/" \o ToString(Len(all))]
    ELSE IF TruthyStr(all[idx + 1].imageId)
    THEN [pc |-> "get", i |-> idx, zip |-> z, card |-> all[idx + 1],
          label |-> "Rendering card " \o ToString(idx + 1) \o "/" \o ToString(Len(all))]
    ELSE LoopFrom(all, idx + 1, ZipCard(z, idx, all[idx + 1]))

\* onClick: let zip = new JSZip(); await database.getAll("card")
ExportClick ==
    /\ ePc = "idle"
    /\ ePc' = "getAll"
    /\ zip' = <<>>
    /\ UNCHANGED <<allCards, eI, eCard, rerenderCanvas, rerendered, result, saved,
                   label, labelTimer, storeVars, renderVars, formVars, dashVars>>

\* getAll resolved: the canvas is created and the loop runs to its first await
ExportGotAll ==
    /\ ePc = "getAll"
    /\ LET at == LoopFrom(cardStore, 0, zip) IN
       /\ allCards' = cardStore
       /\ rerenderCanvas' = NewCanvas(732, 1039)
       /\ ePc' = at.pc /\ eI' = at.i /\ zip' = at.zip /\ eCard' = at.card
       /\ label' = at.label
    /\ UNCHANGED <<rerendered, result, saved, labelTimer, storeVars, renderVars, formVars, dashVars>>

\* database.get("image", card.imageId) resolved with an image:
\* imageFileToImage sets img.src and the handler awaits the decode
ExportGotImage ==
    /\ ePc = "get"
    /\ Get(imageStore, eCard.imageId[1]) # None
    /\ ePc' = "decode"
    /\ UNCHANGED <<allCards, eI, eCard, zip, rerenderCanvas, rerendered, result, saved,
                   label, labelTimer, storeVars, renderVars, formVars, dashVars>>

\* database.get resolved with undefined: imageFileToDataUrl reads
\* image.type in the promise's executor, the promise rejects with the
\* TypeError and the handler ends there
ExportImageMissing ==
    /\ ePc = "get"
    /\ Get(imageStore, eCard.imageId[1]) = None
    /\ ePc' = "rejected"
    /\ UNCHANGED <<allCards, eI, eCard, zip, rerenderCanvas, rerendered, result, saved,
                   label, labelTimer, storeVars, renderVars, formVars, dashVars>>

\* a handler that encodes the surface before it has drawn the record on it
ExportDecoded_EncodesBeforeRender ==
    /\ ePc = "decode"
    /\ LET image == Get(imageStore, eCard.imageId[1])[1]
           drawn == renderCanvas(rerenderCanvas, eCard, Some(Bitmap(image)))
       IN /\ imageFileToDataUrl(image) \in DecodableSrc
          /\ rerenderCanvas' = drawn
          /\ eCard' = [eCard EXCEPT !.base64 = Some(toDataURL(rerenderCanvas))]
    /\ rerendered' = rerendered \cup {eI}
    /\ ePc' = "put"
    /\ UNCHANGED <<allCards, eI, zip, result, saved, label, labelTimer, storeVars,
                   renderVars, formVars, dashVars>>

\* img.onload: renderCanvas, toDataURL, and the put is awaited
ExportDecoded ==
    /\ ePc = "decode"
    /\ LET image == Get(imageStore, eCard.imageId[1])[1]
           drawn == renderCanvas(rerenderCanvas, eCard, Some(Bitmap(image)))
       IN /\ imageFileToDataUrl(image) \in DecodableSrc
          /\ rerenderCanvas' = drawn
          /\ eCard' = [eCard EXCEPT !.base64 = Some(toDataURL(drawn))]
    /\ rerendered' = rerendered \cup {eI}
    /\ ePc' = "put"
    /\ UNCHANGED <<allCards, eI, zip, result, saved, label, labelTimer, storeVars,
                   renderVars, formVars, dashVars>>

\* img.onerror = rej: the awaited promise rejects and the handler ends there
ExportDecodeFailed ==
    /\ ePc = "decode"
    /\ imageFileToDataUrl(Get(imageStore, eCard.imageId[1])[1]) \notin DecodableSrc
    /\ ePc' = "rejected"
    /\ UNCHANGED <<allCards, eI, eCard, zip, rerenderCanvas, rerendered, result, saved,
                   label, labelTimer, storeVars, renderVars, formVars, dashVars>>

\* database.put("card", card) resolved: the card is zipped and the loop runs
\* to its next await
ExportPutDone ==
    /\ ePc = "put"
    /\ cardStore' = Put(cardStore, eCard)
    /\ LET at == LoopFrom(allCards, eI + 1, ZipCard(zip, eI, eCard)) IN
       /\ ePc' = at.pc /\ eI' = at.i /\ zip' = at.zip
       /\ eCard' = IF at.pc = "get" THEN at.card ELSE eCard
       /\ label' = at.label
    /\ UNCHANGED <<allCards, rerenderCanvas, rerendered, result, saved, labelTimer,
                   imageStore, renderVars, formVars, dashVars>>

\* zip.generateAsync resolved: the label, its timer, saveAs(result, "game.zip")
ExportGenerated ==
    /\ ePc = "generateAsync"
    /\ result' = Some([type |-> "blob", files |-> zip])
    /\ label' = "Done, download will start soon..."
    /\ labelTimer' = TRUE
    /\ saved' = Some([name |-> "game.zip", data |-> [type |-> "blob", files |-> zip]])
    /\ ePc' = "done"
    /\ UNCHANGED <<allCards, eI, eCard, zip, rerenderCanvas, rerendered, storeVars,
                   renderVars, formVars, dashVars>>

\* a handler that saves what it has when generateAsync rejects
ExportGenerateFailed_SavesPartial ==
    /\ ePc = "generateAsync"
    /\ ePc' = "rejected"
    /\ saved' = Some([name |-> "game.zip", data |-> [type |-> "blob", files |-> zip]])
    /\ UNCHANGED <<allCards, eI, eCard, zip, rerenderCanvas, rerendered, result,
                   label, labelTimer, storeVars, renderVars, formVars, dashVars>>

\* zip.generateAsync rejected: the handler ends with the rejection
ExportGenerateFailed ==
    /\ ePc = "generateAsync"
    /\ ePc' = "rejected"
    /\ UNCHANGED <<allCards, eI, eCard, zip, rerenderCanvas, rerendered, result, saved,
                   label, labelTimer, storeVars, renderVars, formVars, dashVars>>

\* setTimeout(() => (processLabelRef.current!.innerText = ""), 5000)
LabelTimeout ==
    /\ labelTimer
    /\ labelTimer' = FALSE
    /\ label' = ""
    /\ UNCHANGED <<ePc, allCards, eI, eCard, zip, rerenderCanvas, rerendered, result,
                   saved, storeVars, renderVars, formVars, dashVars>>

ExportNext ==
    \/ ExportClick
    \/ ExportGotAll
    \/ ExportGotImage
    \/ ExportImageMissing
    \/ ExportDecoded
    \/ ExportDecodeFailed
    \/ ExportPutDone
    \/ ExportGenerated
    \/ ExportGenerateFailed
    \/ LabelTimeout

(***************************************************************************)
(* CardForm (App.tsx 507-628) and the Dashboard's CardForm onChange        *)
(* (339-343).  form.setValue fires a field's listeners, then the listenAny *)
(* listeners, when the value changes; form.setValues does so for every     *)
(* field that changes.                                                     *)
(***************************************************************************)
FormIdle ==
    /\ formValues = NewCard(0)
    /\ imageRef = None
    /\ canvasRef = NewCanvas(732, 1039)
    /\ loads = <<>>
    /\ timers = 0
    /\ fRendered = FALSE
    /\ dCard = None
    /\ puts = <<>>
    /\ requests = <<>>
    /\ minted = {}
    /\ app = "indexedDB"
    /\ uploads = <<>>
    /\ removals = <<>>

MaxLoads == 2
MaxTimers == 1

\* async function updateCanvas(): renderCanvas(canvasRef.current!,
\* form.values, imageRef.current), on the given values and bitmap
updateCanvas(values, image) == renderCanvas(canvasRef, values, image)

Without(seq, k) == SubSeq(seq, 1, k - 1) \o SubSeq(seq, k + 1, Len(seq))

\* The imageId listener up to its first await, for the new imageId: the
\* runs awaiting database.get afterwards, and imageRef.current.
ListenerLoads(newId) ==
    IF TruthyStr(newId) /\ (imageRef = None \/ Some(newId[1]) # imageRef[1].imageId)
    THEN Append(loads, [stage |-> "get", key |-> newId[1], image |-> None])
    ELSE loads
ListenerImageRef(newId) == IF TruthyStr(newId) THEN imageRef ELSE None

\* The user edits the "Image id" field: the imageId listener runs to its
\* first await, then the listenAny listener sets its timer.
ChangeImageId(newId) ==
    /\ newId # formValues.imageId
    /\ Len(loads) < MaxLoads
    /\ timers < MaxTimers
    /\ formValues' = [formValues EXCEPT !.imageId = newId]
    /\ loads' = ListenerLoads(newId)
    /\ imageRef' = ListenerImageRef(newId)
    /\ timers' = timers + 1
    /\ fRendered' = FALSE
    /\ UNCHANGED <<canvasRef, dashVars, storeVars, exportVars, renderVars>>

\* The user edits the "Value" field: the listenAny listener sets its timer.
ChangeValue(newValue) ==
    /\ Some(newValue) # formValues.value
    /\ timers < MaxTimers
    /\ formValues' = [formValues EXCEPT !.value = Some(newValue)]
    /\ timers' = timers + 1
    /\ fRendered' = FALSE
    /\ UNCHANGED <<imageRef, canvasRef, loads, dashVars, storeVars, exportVars,
                   renderVars>>

\* props.database.get("image", imageId) resolved for run k of the listener:
\* with an image, imageFileToImage starts the decode; with undefined, the
\* run is over
LoadGot(k) ==
    /\ loads[k].stage = "get"
    /\ LET dbImage == Get(imageStore, loads[k].key) IN
       loads' = IF dbImage # None
                THEN [loads EXCEPT ![k] = [stage |-> "decode", key |-> loads[k].key,
                                           image |-> dbImage]]
                ELSE Without(loads, k)
    /\ fRendered' = FALSE
    /\ UNCHANGED <<formValues, imageRef, canvasRef, timers, dashVars, storeVars,
                   exportVars, renderVars>>

\* img.onload for run k: the image is tagged with the form's imageId of this
\* moment, becomes imageRef.current, and updateCanvas() draws the preview
LoadDecoded(k) ==
    /\ loads[k].stage = "decode"
    /\ imageFileToDataUrl(loads[k].image[1]) \in DecodableSrc
    /\ LET img == [Bitmap(loads[k].image[1]) EXCEPT !.imageId = formValues.imageId] IN
       /\ imageRef' = Some(img)
       /\ canvasRef' = updateCanvas(formValues, Some(img))
    /\ loads' = Without(loads, k)
    /\ fRendered' = TRUE
    /\ UNCHANGED <<formValues, timers, dashVars, storeVars, exportVars, renderVars>>

\* img.onerror for run k: the listener's promise rejects, the run is over
LoadDecodeFailed(k) ==
    /\ loads[k].stage = "decode"
    /\ imageFileToDataUrl(loads[k].image[1]) \notin DecodableSrc
    /\ loads' = Without(loads, k)
    /\ fRendered' = FALSE
    /\ UNCHANGED <<formValues, imageRef, canvasRef, timers, dashVars, storeVars,
                   exportVars, renderVars>>

\* setTimeout(() => updateCanvas(), 1) fires
TimerFired ==
    /\ timers > 0
    /\ timers' = timers - 1
    /\ canvasRef' = updateCanvas(formValues, imageRef)
    /\ fRendered' = TRUE
    /\ UNCHANGED <<formValues, imageRef, loads, dashVars, storeVars, exportVars,
                   renderVars>>

\* Save: onSubmit hands { ...form.values, base64: canvas.toDataURL() } to
\* the Dashboard's onChange, which selects it and awaits its put; the form's
\* effect on props.card sets the form's values to it, which changes base64
\* and fires the listenAny listener.  The model follows the form up to the
\* first save of its card.
FormSubmit ==
    /\ puts = <<>>
    /\ dCard # None
    /\ dCard[1].base64 = None
    /\ timers < MaxTimers
    /\ LET c == [formValues EXCEPT !.base64 = Some(toDataURL(canvasRef))] IN
       /\ c # formValues
       /\ dCard' = Some(c)
       /\ puts' = Append(puts, c)
       /\ formValues' = c
    /\ timers' = timers + 1
    /\ fRendered' = FALSE
    /\ UNCHANGED <<imageRef, canvasRef, loads, requests, minted, imageVars, storeVars,
                   exportVars, renderVars>>

\* await database.put("card", c) of the Dashboard's onChange resolved
DashboardPutDone ==
    /\ puts # <<>>
    /\ cardStore' = Put(cardStore, puts[1])
    /\ puts' = Tail(puts)
    /\ fRendered' = FALSE
    /\ UNCHANGED <<formValues, imageRef, canvasRef, loads, timers, dCard, requests,
                   minted, imageVars, imageStore, exportVars, renderVars>>

MaxFormValueLen == 1
FormValueTexts == {TextOf(n, "3") : n \in 0..MaxFormValueLen}
FormImageIds == {Some(""), Some("a"), Some("b"), Some("zz")}

FormNext ==
    \/ \E newId \in FormImageIds : ChangeImageId(newId)
    \/ \E newValue \in FormValueTexts : ChangeValue(newValue)
    \/ \E k \in 1..Len(loads) : LoadGot(k)
    \/ \E k \in 1..Len(loads) : LoadDecoded(k)
    \/ \E k \in 1..Len(loads) : LoadDecodeFailed(k)
    \/ TimerFired
    \/ FormSubmit
    \/ DashboardPutDone

(***************************************************************************)
(* SpecExport: one export of every card store of up to MaxCards cards.     *)
(***************************************************************************)
MaxCards == 2
MaxAmount == 2

\* The card a save of the form stored: onSubmit adds the preview's raster
\* (here the preview before any photo was loaded).
Saved(c) ==
    [c EXCEPT !.base64 = Some(toDataURL(renderCanvas(NewCanvas(732, 1039), c, None)))]

\* The cards of a store.  A card is as "New card" made it, or was saved by
\* the form, which alone sets an imageId (here of a PNG, of a file that is
\* no image, or of no stored image) and an amount; the amount varies on the
\* cards whose export reaches the archive.
CardKinds ==
    LET amounts == {None} \cup {Some(n) : n \in 0..MaxAmount} IN
    {[imageId |-> None, amount |-> None, saved |-> FALSE]}
    \cup {[imageId |-> im, amount |-> None, saved |-> TRUE] : im \in {Some("b"), Some("zz")}}
    \cup {[imageId |-> im, amount |-> am, saved |-> TRUE] :
             im \in {None, Some("a")}, am \in amounts}

ExportCard(id, kind) ==
    IF kind.saved
    THEN Saved([NewCard(id) EXCEPT !.value = Some(<<"3">>), !.noGradient = Some(TRUE),
                                   !.imageId = kind.imageId, !.amount = kind.amount])
    ELSE NewCard(id)

ExportInit ==
    /\ \E n \in 0..MaxCards : \E kinds \in [1..n -> CardKinds] :
           cardStore = [k \in 1..n |-> ExportCard(k, kinds[k])]
    /\ imageStore = <<PngA, TextB>>
    /\ ExportIdle
    /\ FormIdle
    /\ rPc = "input"
    /\ rCard = NewCard(0)
    /\ rImage = None
    /\ rCanvas = NewCanvas(732, 1039)
    /\ rRaised = FALSE
    /\ FormIdle

SpecExport == ExportInit /\ [][ExportNext]_vars

(***************************************************************************)
(* The Dashboard's card handlers (App.tsx 263-276, 285, 304-325, 339-343). *)
(* Each handler is a click, which runs to its await of the store, and the  *)
(* step in which that await resolves.  The store serves the requests of    *)
(* different handlers in the order they were made; the awaits here resolve *)
(* in any order, which includes that one.                                  *)
(***************************************************************************)
MaxIds == 2
MaxPending == 1
CardIds == 1..MaxIds

IdsOf(store) == {store[k].id : k \in 1..Len(store)}

\* database.add("card", record): adds the record at its place in key order;
\* the request fails when the key is already stored
Add(store, rec) == IF rec.id \in IdsOf(store) THEN store ELSE Put(store, rec)

\* database.delete("card", key)
Delete(store, key) == SelectSeq(store, LAMBDA r : r.id # key)

Pending == Len(requests) + Len(puts)

\* onClick={() => setCard(c)} on a card of the list
SelectCard(k) ==
    /\ dCard # Some(cardStore[k])
    /\ dCard' = Some(cardStore[k])
    /\ UNCHANGED <<puts, requests, minted, imageVars, storeVars, exportVars, formVars,
                   renderVars>>

\* "New card" clicked: let newCard = { ..., id: nanoid(), ... };
\* await database.add("card", newCard)
NewCardClick ==
    /\ Pending < MaxPending
    /\ \E id \in CardIds \ minted :
           /\ requests' = Append(requests, [kind |-> "new", card |-> NewCard(id)])
           /\ minted' = minted \cup {id}
    /\ UNCHANGED <<dCard, puts, imageVars, storeVars, exportVars, formVars, renderVars>>

\* a "Duplicate" whose copy keeps the id of the selected card
DuplicateClick_KeepsId ==
    /\ dCard # None
    /\ Pending < MaxPending
    /\ requests' = Append(requests, [kind |-> "duplicate", card |-> dCard[1]])
    /\ UNCHANGED <<dCard, puts, minted, imageVars, storeVars, exportVars, formVars,
                   renderVars>>

\* "Duplicate" clicked: let newCard = { ...card, id: nanoid() };
\* await database.add("card", newCard)
DuplicateClick ==
    /\ dCard # None
    /\ Pending < MaxPending
    /\ \E id \in CardIds \ minted :
           /\ requests' = Append(requests, [kind |-> "duplicate",
                                            card |-> [dCard[1] EXCEPT !.id = id]])
           /\ minted' = minted \cup {id}
    /\ UNCHANGED <<dCard, puts, imageVars, storeVars, exportVars, formVars, renderVars>>

\* database.add resolved for handler k ("New card" or "Duplicate"):
\* setCard(newCard); when the add failed the handler ends with the rejection
CardAdded(k) ==
    /\ requests[k].kind \in {"new", "duplicate"}
    /\ cardStore' = Add(cardStore, requests[k].card)
    /\ dCard' = IF requests[k].card.id \in IdsOf(cardStore) THEN dCard
                ELSE Some(requests[k].card)
    /\ requests' = Without(requests, k)
    /\ UNCHANGED <<puts, minted, imageVars, imageStore, exportVars, formVars, renderVars>>

\* "Remove" clicked: await database.delete("card", card.id)
RemoveClick ==
    /\ dCard # None
    /\ Pending < MaxPending
    /\ requests' = Append(requests, [kind |-> "remove", card |-> dCard[1]])
    /\ UNCHANGED <<dCard, puts, minted, imageVars, storeVars, exportVars, formVars,
                   renderVars>>

\* database.delete resolved for handler k: setCard(undefined)
CardRemoved(k) ==
    /\ requests[k].kind = "remove"
    /\ cardStore' = Delete(cardStore, requests[k].card.id)
    /\ dCard' = None
    /\ requests' = Without(requests, k)
    /\ UNCHANGED <<puts, minted, imageVars, imageStore, exportVars, formVars, renderVars>>

\* The user sets the "Value" field of the selected card's form and saves:
\* onSubmit hands { ...form.values, base64: canvas.toDataURL() } to the
\* Dashboard's onChange, which selects it and awaits its put.
SaveEdit(newValue) ==
    /\ dCard # None
    /\ Pending < MaxPending
    /\ Some(newValue) # dCard[1].value
    /\ LET c == Saved([dCard[1] EXCEPT !.value = Some(newValue)]) IN
       /\ dCard' = Some(c)
       /\ puts' = Append(puts, c)
    /\ UNCHANGED <<requests, minted, imageVars, storeVars, exportVars, formVars,
                   renderVars>>

DashNext ==
    \/ \E k \in 1..Len(cardStore) : SelectCard(k)
    \/ NewCardClick
    \/ DuplicateClick
    \/ \E k \in 1..Len(requests) : CardAdded(k)
    \/ RemoveClick
    \/ \E k \in 1..Len(requests) : CardRemoved(k)
    \/ \E newValue \in FormValueTexts : SaveEdit(newValue)
    \/ DashboardPutDone

(***************************************************************************)
(* SpecDash: the Dashboard on a store of one saved card, the user creating, *)
(* duplicating, removing and saving cards while one export runs.           *)
(***************************************************************************)
DashInit ==
    /\ \E im \in {Some("a"), Some("b"), Some("zz")} :
           cardStore = <<ExportCard(1, [imageId |-> im, amount |-> None, saved |-> TRUE])>>
    /\ imageStore = <<PngA, TextB>>
    /\ ExportIdle
    /\ formValues = NewCard(0)
    /\ imageRef = None
    /\ canvasRef = NewCanvas(732, 1039)
    /\ loads = <<>>
    /\ timers = 0
    /\ fRendered = FALSE
    /\ dCard = None
    /\ puts = <<>>
    /\ requests = <<>>
    /\ minted = {1}
    /\ app = "indexedDB"
    /\ uploads = <<>>
    /\ removals = <<>>
    /\ rPc = "input"
    /\ rCard = NewCard(0)
    /\ rImage = None
    /\ rCanvas = NewCanvas(732, 1039)
    /\ rRaised = FALSE

SpecDash == DashInit /\ [][ExportNext \/ DashNext]_vars

(***************************************************************************)
(* The image upload and image "Remove" handlers of both revisions          *)
(* (App.tsx 139-157 and 182-189; unnamed/part_000 31-49 and 57).           *)
(***************************************************************************)
MaxUploads == 2
MaxFiles == 2
MaxRemovals == 1

\* The base64 alphabet, and btoa of a string given as its char codes.
Base64Chars ==
    <<"A", "B", "C", "D", "E", "F", "G", "H", "I", "J", "K", "L", "M", "N", "O", "P",
      "Q", "R", "S", "T", "U", "V", "W", "X", "Y", "Z", "a", "b", "c", "d", "e", "f",
      "g", "h", "i", "j", "k", "l", "m", "n", "o", "p", "q", "r", "s", "t", "u", "v",
      "w", "x", "y", "z", "0", "1", "2", "3", "4", "5", "6", "7", "8", "9", "+", "/">>
RECURSIVE btoa(_)
btoa(bytes) ==
    IF bytes = <<>> THEN ""
    ELSE LET n == Len(bytes)
             b1 == bytes[1]
             b2 == IF n >= 2 THEN bytes[2] ELSE 0
             b3 == IF n >= 3 THEN bytes[3] ELSE 0
         IN Base64Chars[(b1 \div 4) + 1]
            \o Base64Chars[(b1 % 4) * 16 + (b2 \div 16) + 1]
            \o (IF n >= 2 THEN Base64Chars[(b2 % 16) * 4 + (b3 \div 64) + 1] ELSE "=")
            \o (IF n >= 3 THEN Base64Chars[(b3 % 64) + 1] ELSE "=")
            \o btoa(SubSeq(bytes, 4, n))

\* The files the user picks: a PNG (its first eight bytes) and a text file.
FilePng == [name |-> "c.png", type |-> "image/png",
            bytes |-> <<137, 80, 78, 71, 13, 10, 26, 10>>]
FileTxt == [name |-> "d.txt", type |-> "text/plain", bytes |-> <<104, 105>>]
FileLists == UNION {[1..n -> {FilePng, FileTxt}] : n \in 1..MaxFiles}

\* nanoid() for images: the n-th token; key order is the order of n, after
\* the ids of the images stored at the start.
ImageToken(n) == "img" \o ToString(n)
ImageTokens == 1..(MaxUploads * MaxFiles)
MintedImages ==
    UNION {{uploads[k].images[j].id : j \in 1..Len(uploads[k].images)} :
               k \in 1..Len(uploads)}

\* The keys of the image store in key order, and database.add("image",
\* record) / database.delete("image", key) on the store.
ImageKeys == <<"a", "b">> \o [n \in ImageTokens |-> ImageToken(n)]
ImageRank(id) == CHOOSE r \in 1..Len(ImageKeys) : ImageKeys[r] = id
AddImage(store, rec) ==
    IF rec.id \in IdsOf(store) THEN store
    ELSE LET below == Cardinality({k \in 1..Len(store) :
                                       ImageRank(store[k].id) < ImageRank(rec.id)})
         IN SubSeq(store, 1, below) \o <<rec>> \o SubSeq(store, below + 1, Len(store))
DeleteImage(store, key) == SelectSeq(store, LAMBDA r : r.id # key)

\* { base64: base64Raw, type: file.type, name: file.name, id: nanoid() }
UploadedImage(file, id) == ImageFile(id, file.name, file.type, btoa(file.bytes))

\* The position of an upload handler after file i (0-based) is done.
UploadStage(files, i) == IF i < Len(files) THEN "arrayBuffer" ELSE "done"

\* onChange of the file input (App.tsx 139-147): the loop runs to
\* await file.arrayBuffer() of the first file
UploadChange(files) ==
    /\ app = "indexedDB"
    /\ Len(uploads) < MaxUploads
    /\ uploads' = Append(uploads, [files |-> files, i |-> 0, images |-> <<>>,
                                   state |-> <<>>, stage |-> UploadStage(files, 0)])
    /\ UNCHANGED <<app, removals, dCard, puts, requests, minted, storeVars, exportVars,
                   formVars, renderVars>>

\* file.arrayBuffer() resolved for handler k: btoa, nanoid(), and
\* await database.add("image", ...)
UploadGotBytes(k) ==
    /\ app = "indexedDB"
    /\ uploads[k].stage = "arrayBuffer"
    /\ \E n \in ImageTokens :
           /\ ImageToken(n) \notin MintedImages
           /\ uploads' = [uploads EXCEPT
                  ![k].images = Append(@, UploadedImage(uploads[k].files[uploads[k].i + 1],
                                                        ImageToken(n))),
                  ![k].stage = "add"]
    /\ UNCHANGED <<app, removals, dCard, puts, requests, minted, storeVars, exportVars,
                   formVars, renderVars>>

\* database.add resolved for handler k: refreshImages(), and the loop runs
\* to the next file's await or ends
UploadAdded(k) ==
    /\ app = "indexedDB"
    /\ uploads[k].stage = "add"
    /\ imageStore' = AddImage(imageStore, uploads[k].images[uploads[k].i + 1])
    /\ uploads' = [uploads EXCEPT
           ![k].i = @ + 1,
           ![k].stage = UploadStage(uploads[k].files, uploads[k].i + 1)]
    /\ UNCHANGED <<app, removals, dCard, puts, requests, minted, cardStore, exportVars,
                   formVars, renderVars>>

\* "Remove" of an image tile clicked (App.tsx 184-185):
\* await database.delete("image", file.id)
ImageRemoveClick(id) ==
    /\ app = "indexedDB"
    /\ Len(removals) < MaxRemovals
    /\ id \in IdsOf(imageStore)
    /\ removals' = Append(removals, [id |-> id, stage |-> "delete"])
    /\ UNCHANGED <<app, uploads, dCard, puts, requests, minted, storeVars, exportVars,
                   formVars, renderVars>>

\* database.delete resolved for handler k: refreshImages()
ImageRemoved(k) ==
    /\ app = "indexedDB"
    /\ removals[k].stage = "delete"
    /\ imageStore' = DeleteImage(imageStore, removals[k].id)
    /\ removals' = [removals EXCEPT ![k].stage = "done"]
    /\ UNCHANGED <<app, uploads, dCard, puts, requests, minted, cardStore, exportVars,
                   formVars, renderVars>>

\* onChange of the file input of the localStorage revision (part_000
\* 31-39): the handler is the closure of the last render, so its `state' is
\* the state of that moment; the input takes one file
LsUploadChange(file) ==
    /\ app = "localStorage"
    /\ Len(uploads) < MaxUploads
    /\ uploads' = Append(uploads, [files |-> <<file>>, i |-> 0, images |-> <<>>,
                                   state |-> imageStore, stage |-> "arrayBuffer"])
    /\ UNCHANGED <<app, removals, dCard, puts, requests, minted, storeVars, exportVars,
                   formVars, renderVars>>

\* file.arrayBuffer() resolved for handler k (part_000 39-47):
\* setState({ ...state, files: [...state.files, { ..., id: nanoid() }] })
LsUploadGotBytes(k) ==
    /\ app = "localStorage"
    /\ uploads[k].stage = "arrayBuffer"
    /\ \E n \in ImageTokens :
           /\ ImageToken(n) \notin MintedImages
           /\ LET image == UploadedImage(uploads[k].files[uploads[k].i + 1], ImageToken(n))
              IN /\ imageStore' = Append(uploads[k].state, image)
                 /\ uploads' = [uploads EXCEPT
                        ![k].images = Append(@, image),
                        ![k].i = @ + 1,
                        ![k].stage = UploadStage(uploads[k].files, uploads[k].i + 1)]
    /\ UNCHANGED <<app, removals, dCard, puts, requests, minted, cardStore, exportVars,
                   formVars, renderVars>>

\* "Remove" of the localStorage revision (part_000 57):
\* setState({ ...state, files: state.files.filter((e) => e.id !== file.id) })
LsRemove(id) ==
    /\ app = "localStorage"
    /\ Len(removals) < MaxRemovals
    /\ id \in IdsOf(imageStore)
    /\ imageStore' = DeleteImage(imageStore, id)
    /\ removals' = Append(removals, [id |-> id, stage |-> "done"])
    /\ UNCHANGED <<app, uploads, dCard, puts, requests, minted, cardStore, exportVars,
                   formVars, renderVars>>

UploadNext ==
    \/ \E files \in FileLists : UploadChange(files)
    \/ \E k \in 1..Len(uploads) : UploadGotBytes(k)
    \/ \E k \in 1..Len(uploads) : UploadAdded(k)
    \/ \E id \in IdsOf(imageStore) : ImageRemoveClick(id)
    \/ \E k \in 1..Len(removals) : ImageRemoved(k)
    \/ \E file \in {FilePng, FileTxt} : LsUploadChange(file)
    \/ \E k \in 1..Len(uploads) : LsUploadGotBytes(k)
    \/ \E id \in IdsOf(imageStore) : LsRemove(id)

(***************************************************************************)
(* SpecUpload: either revision of the app with two stored images, the user *)
(* uploading files and removing images.                                    *)
(***************************************************************************)
UploadInit ==
    /\ app \in {"indexedDB", "localStorage"}
    /\ imageStore = <<PngA, TextB>>
    /\ uploads = <<>>
    /\ removals = <<>>
    /\ cardStore = <<>>
    /\ ExportIdle
    /\ formValues = NewCard(0)
    /\ imageRef = None
    /\ canvasRef = NewCanvas(732, 1039)
    /\ loads = <<>>
    /\ timers = 0
    /\ fRendered = FALSE
    /\ dCard = None
    /\ puts = <<>>
    /\ requests = <<>>
    /\ minted = {}
    /\ rPc = "input"
    /\ rCard = NewCard(0)
    /\ rImage = None
    /\ rCanvas = NewCanvas(732, 1039)
    /\ rRaised = FALSE

SpecUpload == UploadInit /\ [][UploadNext]_vars

(***************************************************************************)
(* SpecRender: the renderer on every card of RenderCards, with and without *)
(* a bitmap, on a fresh surface of either template.                        *)
(***************************************************************************)
RenderInit ==
    /\ rPc = "input"
    /\ rCard \in RenderCards
    /\ rImage \in {None, Some(Bitmap(PngA))}
    /\ rCanvas = NewCanvas(732, 1039)
    /\ rRaised = FALSE
    /\ cardStore = <<>>
    /\ imageStore = <<PngA, TextB>>
    /\ ExportIdle
    /\ FormIdle

\* renderCanvas on a 732x1039 surface (the export's and the form's)
Render ==
    /\ rPc = "input"
    /\ rCanvas' = renderCanvas(NewCanvas(732, 1039), rCard, rImage)
    /\ rRaised' = renderRaises(rCard)
    /\ rPc' = "rendered"
    /\ UNCHANGED <<rCard, rImage, storeVars, exportVars, formVars, dashVars>>

\* the 800x1200 revision's updateCanvas on its form's surface
Render800 ==
    /\ rPc = "input"
    /\ rCanvas' = updateCanvas800(NewCanvas(800, 1200), rCard, rImage)
    /\ rRaised' = renderRaises(rCard)
    /\ rPc' = "rendered800"
    /\ UNCHANGED <<rCard, rImage, storeVars, exportVars, formVars, dashVars>>

RenderNext == Render \/ Render800

SpecRender == RenderInit /\ [][RenderNext]_vars

(***************************************************************************)
(* SpecReuse: the renderer called again and again on one surface, as the   *)
(* export does on rerenderCanvas and the form on its preview canvas.       *)
(***************************************************************************)
\* Cards with and without each optional layer, with a filter the context
\* accepts, with one it does not ("blurry"), and without one.
ReuseLayerCards ==
    {[NewCard(1) EXCEPT
        !.value = Some(<<"3">>), !.valueDescription = Some(vd), !.text = td,
        !.description = td, !.imageFilter = f, !.borderColor = bc] :
        vd \in {<<>>, TextOf(6, "c")}, td \in {None, Some(LinesOf(1))},
        f \in {None, Some("blur(2px)"), Some("grayscale(1)"), Some("blurry")},
        bc \in {None, Some("rainbow")}}

\* Cards with body text in a font of the "Text font" field, a free-text
\* field: a font the context accepts, and a string it does not ("45px", a
\* size without a family).
ReuseFontCards ==
    {[NewCard(1) EXCEPT
        !.value = Some(<<"3">>), !.text = Some(LinesOf(1)), !.textFont = Some(tf)] :
        tf \in {"45px Source Sans Pro", "45px"}}

ReuseCards == ReuseLayerCards \cup ReuseFontCards

ReuseInit ==
    /\ rPc = "input"
    /\ rCard \in ReuseCards
    /\ rImage \in {None, Some(Bitmap(PngA))}
    /\ rCanvas = NewCanvas(732, 1039)
    /\ rRaised = FALSE
    /\ cardStore = <<>>
    /\ imageStore = <<PngA, TextB>>
    /\ ExportIdle
    /\ FormIdle

\* The caller turns to the card and bitmap of its next render on the same
\* surface (the export's next record, the form's changed values).
NextCard ==
    /\ rPc \in {"rendered", "rerendered", "rendered800", "rerendered800"}
    /\ rCard' \in ReuseCards
    /\ rImage' \in {None, Some(Bitmap(PngA))}
    /\ rPc' = IF rPc \in {"rendered", "rerendered"} THEN "next" ELSE "next800"
    /\ UNCHANGED <<rCanvas, rRaised, storeVars, exportVars, formVars, dashVars>>

\* renderCanvas on the surface an earlier call drew on
Rerender ==
    /\ rPc = "next"
    /\ rCanvas' = renderCanvas(rCanvas, rCard, rImage)
    /\ rRaised' = renderRaises(rCard)
    /\ rPc' = "rerendered"
    /\ UNCHANGED <<rCard, rImage, storeVars, exportVars, formVars, dashVars>>

\* the 800x1200 revision's updateCanvas on the surface it drew on before
Rerender800 ==
    /\ rPc = "next800"
    /\ rCanvas' = updateCanvas800(rCanvas, rCard, rImage)
    /\ rRaised' = renderRaises(rCard)
    /\ rPc' = "rerendered800"
    /\ UNCHANGED <<rCard, rImage, storeVars, exportVars, formVars, dashVars>>

ReuseNext == Render \/ Render800 \/ NextCard \/ Rerender \/ Rerender800

SpecReuse == ReuseInit /\ [][ReuseNext]_vars

(***************************************************************************)
(* SpecForm: the form mounted on the card "New card" has just made and     *)
(* selected; nothing has been drawn on its canvas yet.                     *)
(***************************************************************************)
FormInit ==
    /\ cardStore = <<NewCard(1)>>
    /\ imageStore = <<PngA, TextB>>
    /\ dCard = Some(NewCard(1))
    /\ formValues = NewCard(1)
    /\ imageRef = None
    /\ canvasRef = NewCanvas(732, 1039)
    /\ loads = <<>>
    /\ timers = 0
    /\ fRendered = FALSE
    /\ puts = <<>>
    /\ requests = <<>>
    /\ minted = {1}
    /\ app = "indexedDB"
    /\ uploads = <<>>
    /\ removals = <<>>
    /\ ExportIdle
    /\ rPc = "input"
    /\ rCard = NewCard(0)
    /\ rImage = None
    /\ rCanvas = NewCanvas(732, 1039)
    /\ rRaised = FALSE

SpecForm == FormInit /\ [][FormNext]_vars

(***************************************************************************)
(* SpecPreview: the form of a new card over a store with two PNGs and a    *)
(* file that is no image, the user changing only the "Image id" field:     *)
(* the imageId listener, its loads and the redraws.                        *)
(***************************************************************************)
PreviewImageIds == {Some(""), Some("a"), Some("b"), Some("c"), Some("zz")}

PreviewInit ==
    /\ cardStore = <<NewCard(1)>>
    /\ imageStore = <<PngA, TextB, PngC>>
    /\ dCard = Some(NewCard(1))
    /\ formValues = NewCard(1)
    /\ imageRef = None
    /\ canvasRef = NewCanvas(732, 1039)
    /\ loads = <<>>
    /\ timers = 0
    /\ fRendered = FALSE
    /\ puts = <<>>
    /\ requests = <<>>
    /\ minted = {1}
    /\ app = "indexedDB"
    /\ uploads = <<>>
    /\ removals = <<>>
    /\ ExportIdle
    /\ rPc = "input"
    /\ rCard = NewCard(0)
    /\ rImage = None
    /\ rCanvas = NewCanvas(732, 1039)
    /\ rRaised = FALSE

PreviewNext ==
    \/ \E newId \in PreviewImageIds : ChangeImageId(newId)
    \/ \E k \in 1..Len(loads) : LoadGot(k)
    \/ \E k \in 1..Len(loads) : LoadDecoded(k)
    \/ \E k \in 1..Len(loads) : LoadDecodeFailed(k)
    \/ TimerFired

SpecPreview == PreviewInit /\ [][PreviewNext]_vars

(***************************************************************************)
(* Claims about the export.                                                *)
(***************************************************************************)
Names(z) == [k \in 1..Len(z) |-> z[k].name]
NameSet(z) == {z[k].name : k \in 1..Len(z)}

\* The records of allCards the loop has passed: their indices are below eI.
\* A record has a raster to export when the loop rendered it (it has an
\* imageId) or it came with a cached one.
HasRaster(c) == TruthyStr(c.imageId) \/ c.base64 # None
AmountOf(c) == IF c.amount = None THEN 1 ELSE c.amount[1]

\* C1: for every record at index idx the loop has passed that has a raster
\* to export and amount a (absent counts as 1), the archive holds "idx.png"
\* and "idx-n.png" for n in 1..a-1; there are no other entries and none
\* twice.
C1_EntryNaming ==
    /\ NameSet(zip) =
          UNION {{ToString(idx) \o ".png"} \cup
                 {ToString(idx) \o "-" \o ToString(n) \o ".png" :
                     n \in 1..(AmountOf(allCards[idx + 1]) - 1)} :
                 idx \in {x \in 0..(eI - 1) : HasRaster(allCards[x + 1])}}
    /\ Cardinality(NameSet(zip)) = Len(zip)

\* a finished export whose second record has amount 2: "1.png" and "1-1.png"
C1_Witness ==
    /\ ePc = "done"
    /\ Len(allCards) = 2
    /\ allCards[2].amount = Some(2)
    /\ allCards[1].amount = Some(0)
    /\ NameSet(zip) = {"0.png", "1.png", "1-1.png"}

\* The names of the records from index idx on, in the order of the claim.
RECURSIVE CopyNames(_, _, _)
CopyNames(idx, n, a) ==
    IF n >= a THEN <<>>
    ELSE <<ToString(idx) \o "-" \o ToString(n) \o ".png">> \o CopyNames(idx, n + 1, a)
RECURSIVE OrderedNames(_, _, _)
OrderedNames(all, idx, upto) ==
    IF idx >= upto THEN <<>>
    ELSE (IF HasRaster(all[idx + 1])
          THEN <<ToString(idx) \o ".png">> \o CopyNames(idx, 1, AmountOf(all[idx + 1]))
          ELSE <<>>)
         \o OrderedNames(all, idx + 1, upto)

\* C2: the archive's entries are in the order of the records: every entry
\* of record i before any entry of record i+1, and within a record the first
\* copy, then the extra copies in increasing n.  In particular a finished
\* export of two records with amounts 1 and 2 holds 0.png, 1.png, 1-1.png,
\* in that order.
C2_EntryOrder ==
    /\ Names(zip) = OrderedNames(allCards, 0, eI)
    /\ (/\ ePc = "done"
        /\ Len(allCards) = 2
        /\ allCards[1].amount = Some(1)
        /\ allCards[2].amount = Some(2))
       => Names(saved[1].data.files) = <<"0.png", "1.png", "1-1.png">>

\* the export of [cardA(amount=1), cardB(amount=2)], cardB with a photo, done
C2_Witness ==
    /\ ePc = "done"
    /\ Len(allCards) = 2
    /\ allCards[1].amount = Some(1)
    /\ allCards[2].amount = Some(2)
    /\ allCards[2].imageId = Some("a")
    /\ Names(zip) = <<"0.png", "1.png", "1-1.png">>

\* C3 (as claimed): the handler never ends at a record whose imageId names
\* no stored image; such a record is rendered without its photo and the
\* loop goes on.
C3_MissingAssetNonFatal ==
    ~(/\ ePc = "rejected"
      /\ eI < Len(allCards)
      /\ Get(imageStore, eCard.imageId[1]) = None)

\* C4 (as claimed): the handler never ends at a record whose stored image
\* cannot be decoded; such a record is rendered without its photo and the
\* loop goes on.
C4_DecodeFailureNonFatal ==
    ~(/\ ePc = "rejected"
      /\ eI < Len(allCards)
      /\ Get(imageStore, eCard.imageId[1]) # None
      /\ imageFileToDataUrl(Get(imageStore, eCard.imageId[1])[1]) \notin DecodableSrc)

\* C5 (as claimed): when the loop is over, every record of the input has
\* been rendered on the reusable surface, with or without an imageId.
C5_EveryRecordRendered ==
    ePc \in {"generateAsync", "done"} => rerendered = 0..(Len(allCards) - 1)

\* C6 (as claimed): the archive of a finished export holds "i.png" for every
\* index i of the input.
C6_OneImagePerRecord ==
    ePc = "done" =>
        \A idx \in 0..(Len(allCards) - 1) :
            ToString(idx) \o ".png" \in NameSet(saved[1].data.files)

\* C7: nothing is handed to saveAs unless generateAsync resolved, and then it
\* is the archive generateAsync produced, with the entries of the whole
\* loop; a handler that ended with a rejection has saved nothing.
C7_ArchiveFailureAtomic ==
    /\ saved # None =>
          /\ ePc = "done"
          /\ result = Some(saved[1].data)
          /\ saved[1].name = "game.zip"
          /\ Names(saved[1].data.files) = OrderedNames(allCards, 0, Len(allCards))
    /\ ePc = "rejected" => saved = None

\* generateAsync rejected on an archive that held entries: nothing was saved
C7_Witness ==
    /\ ePc = "rejected"
    /\ eI = Len(allCards)
    /\ Len(zip) = 3
    /\ saved = None

\* The drawing operations on a surface, without the drawing state they ran
\* under.
Drawn(canvas) ==
    [k \in 1..Len(canvas.pixels) |->
        [op |-> canvas.pixels[k].op, tag |-> canvas.pixels[k].tag, a |-> canvas.pixels[k].a]]

\* C24: at every suspension point of the export, the surface shows nothing
\* (before the first render) or exactly the operations of one complete
\* render of the record rendered last, with the transform back at the
\* identity and nothing left on the save stack; and while the put of record
\* i is awaited, the raster cached in it is the encoding of that surface and
\* the record's other fields are those of the snapshot.
C24_NoInterleavedRenders ==
    /\ rerendered = {} => rerenderCanvas = NewCanvas(732, 1039)
    /\ rerendered # {} =>
           LET last == CHOOSE n \in rerendered : \A m \in rerendered : m <= n
               card == allCards[last + 1]
               image == Get(imageStore, card.imageId[1])[1]
           IN /\ Drawn(rerenderCanvas) =
                     Drawn(renderCanvas(NewCanvas(732, 1039), card, Some(Bitmap(image))))
              /\ rerenderCanvas.tf = Identity
              /\ rerenderCanvas.stack = <<>>
    /\ ePc = "put" =>
           /\ eI \in rerendered
           /\ \A m \in rerendered : m <= eI
           /\ eCard = [allCards[eI + 1] EXCEPT !.base64 = Some(toDataURL(rerenderCanvas))]

\* the put of the second record is awaited, rendered on the surface the
\* first record was rendered on
C24_Witness ==
    /\ ePc = "put"
    /\ eI = 1
    /\ rerendered = {0, 1}
    /\ Len(rerenderCanvas.pixels) = Len(eCard.base64[1].body.pixels)

(***************************************************************************)
(* Claims about the renderer.                                              *)
(***************************************************************************)
\* The blocks of the renderer, in the order the layers are specified.
LayerOrder ==
    <<"base", "photo", "gradientBottom", "gradientTop", "textBacking", "textLine",
      "description", "descriptionMirror", "border", "badgeTopLeft",
      "badgeBottomRight", "value", "valueMirror", "caption", "captionMirror">>
Rank(tag) == CHOOSE i \in 1..Len(LayerOrder) : LayerOrder[i] = tag
Tags(canvas) == {canvas.pixels[i].tag : i \in 1..Len(canvas.pixels)}
Count(canvas, tag) ==
    Cardinality({i \in 1..Len(canvas.pixels) : canvas.pixels[i].tag = tag})

\* C8: in every render (either template) the first drawing operation is the
\* white fill of the whole surface, untransformed and unfiltered, and the
\* operations follow the layer order: base, photo, bottom then top
\* gradient, text backing then lines, description then its mirrored copy,
\* border stroke, top-left then bottom-right badge, value then its mirrored
\* copy, caption then its mirrored copy.
C8_LayerOrder ==
    rPc # "input" =>
        LET px == rCanvas.pixels IN
        /\ px # <<>>
        /\ px[1].tag = "base"
        /\ px[1].op = "fillRect"
        /\ px[1].a = [x |-> 0, y |-> 0, w |-> T(rCanvas.width), h |-> T(rCanvas.height)]
        /\ px[1].st.fillStyle = Color("white")
        /\ px[1].st.tf = Identity
        /\ px[1].st.filter = "none"
        /\ \A j \in 1..Len(px) : \A k \in j..Len(px) :
               Rank(px[j].tag) <= Rank(px[k].tag)

\* a 732x1039 render in which every one of the fifteen blocks drew
C8_Witness ==
    /\ rPc = "rendered"
    /\ Tags(rCanvas) = {LayerOrder[i] : i \in 1..Len(LayerOrder)}
    /\ Count(rCanvas, "textLine") = 2
    /\ Count(rCanvas, "descriptionMirror") = 2

\* C9: for every card whose value is a string, render completes without
\* raising; it draws nothing of the body text, the description, the caption
\* or the photo when that field is absent or empty, and it always draws the
\* base fill, the border stroke, both badges and both value glyphs, once each.
C9_MissingFieldSkips ==
    rPc # "input" =>
        /\ ~rRaised
        /\ ~TruthyText(rCard.text) =>
               Tags(rCanvas) \cap {"textBacking", "textLine"} = {}
        /\ ~TruthyText(rCard.description) =>
               Tags(rCanvas) \cap {"description", "descriptionMirror"} = {}
        /\ (rCard.valueDescription = None \/ rCard.valueDescription = Some(<<>>)) =>
               Tags(rCanvas) \cap {"caption", "captionMirror"} = {}
        /\ rImage = None => "photo" \notin Tags(rCanvas)
        /\ \A t \in {"base", "border", "badgeTopLeft", "badgeBottomRight",
                     "value", "valueMirror"} : Count(rCanvas, t) = 1

\* the card "New card" makes, its text, description, colors, font, filter and
\* placement absent, its caption empty and no photo: the render draws the
\* six mandatory operations and the two gradients, nothing else
C9_Witness ==
    /\ rPc = "rendered"
    /\ rImage = None
    /\ rCard.text = None /\ rCard.description = None
    /\ rCard.valueDescription = Some(<<>>)
    /\ rCard.borderColor = None /\ rCard.textFont = None /\ rCard.imageFilter = None
    /\ rCard.imageWidth = None
    /\ Len(rCanvas.pixels) = 8

\* The surface a call of the renderer leaves, for the template pc names.
Rendering(pc, card, image) ==
    IF pc = "rendered800"
    THEN updateCanvas800(NewCanvas(800, 1200), card, image)
    ELSE renderCanvas(NewCanvas(732, 1039), card, image)

\* C12: a render onto a fresh surface is decided by the card's fields and
\* the bitmap: rendering them again gives the same operations, arguments and
\* drawing state, and so does the render of every card that differs from this
\* one only in id, amount or base64.
C12_RenderPure ==
    rPc # "input" =>
        /\ rCanvas = Rendering(rPc, rCard, rImage)
        /\ \A c \in {[rCard EXCEPT !.id = 2], [rCard EXCEPT !.amount = Some(2)],
                      [rCard EXCEPT !.base64 = Some(toDataURL(rCanvas))]} :
               Rendering(rPc, c, rImage) = rCanvas

\* a render of every layer, photo included, equal to the render of a card
\* with another id, an amount and a cached raster
C12_Witness ==
    /\ rPc = "rendered"
    /\ Tags(rCanvas) = {LayerOrder[i] : i \in 1..Len(LayerOrder)}
    /\ rCard.id = 1 /\ rCard.amount = None /\ rCard.base64 = None
    /\ Rendering(rPc, [rCard EXCEPT !.id = 2, !.amount = Some(2),
                                    !.base64 = Some(toDataURL(rCanvas))], rImage)
       = rCanvas

\* The operations of a surface that are not of the block tag.
WithoutTag(px, tag) == SelectSeq(px, LAMBDA e : e.tag # tag)

\* C13: the render of a card with a bitmap and its render without one emit
\* the same operations, with the same arguments and drawing state, but for
\* the one drawImage of the photo, and leave the context in the same state.
C13_LayerOmission ==
    rPc # "input" =>
        LET with == Rendering(rPc, rCard, Some(Bitmap(PngA)))
            without == Rendering(rPc, rCard, None)
        IN /\ rCanvas = (IF rImage = None THEN without ELSE with)
           /\ Count(with, "photo") = 1
           /\ Count(without, "photo") = 0
           /\ WithoutTag(with.pixels, "photo") = without.pixels
           /\ [with EXCEPT !.pixels = <<>>] = [without EXCEPT !.pixels = <<>>]

\* a render with a photo under a filter, gradients and text over it
C13_Witness ==
    /\ rPc = "rendered"
    /\ rImage # None
    /\ rCard.imageFilter = Some("blur(2px)")
    /\ Count(rCanvas, "photo") = 1
    /\ {"gradientTop", "textLine", "caption"} \subseteq Tags(rCanvas)
    /\ WithoutTag(rCanvas.pixels, "photo") = Rendering(rPc, rCard, None).pixels

\* The filter the context holds after gl.filter = card.imageFilter || "none".
FilterOf(card) ==
    LET f == OrStr(card.imageFilter, "none") IN IF f \in CssFilters THEN f ELSE "none"

\* C14: in every render, on a fresh surface or on one an earlier render
\* drew on, the photo's drawImage runs under the card's imageFilter (under
\* no filter when the card has none or one the context does not accept; the
\* 800x1200 revision has no imageFilter), every other operation, the base
\* fill included, runs under filter "none", and the filter is "none" when
\* the render returns.
C14_FilterScoping ==
    rPc \in {"rendered", "rerendered", "rendered800", "rerendered800"} =>
        LET px == rCanvas.pixels IN
        /\ rCanvas.filter = "none"
        /\ px[1].tag = "base"
        /\ \A k \in 1..Len(px) :
              px[k].st.filter =
                  (IF px[k].tag = "photo" /\ rPc \in {"rendered", "rerendered"}
                   THEN FilterOf(rCard) ELSE "none")

\* a render with a photo under blur(2px) on a reused surface, gradients and
\* border over it
C14_Witness ==
    /\ rPc = "rerendered"
    /\ rCard.imageFilter = Some("blur(2px)")
    /\ \E k \in 1..Len(rCanvas.pixels) :
          /\ rCanvas.pixels[k].tag = "photo"
          /\ rCanvas.pixels[k].st.filter = "blur(2px)"
    /\ {"gradientTop", "border", "caption"} \subseteq Tags(rCanvas)
    /\ rCanvas.filter = "none"

\* The operations of the block tag on a surface, and a caption font's size.
OpsOf(canvas, tag) == SelectSeq(canvas.pixels, LAMBDA e : e.tag = tag)
FontPx(font) ==
    CASE font = "19px Bangers" -> 19
      [] font = "20px Bangers" -> 20
      [] font = "24px Bangers" -> 24
      [] font = "28px Bangers" -> 28
      [] font = "30px Bangers" -> 30
      [] font = "32px Bangers" -> 32
      [] OTHER -> 0
CaptionOps(canvas) == OpsOf(canvas, "caption") \o OpsOf(canvas, "captionMirror")

\* C15 (as claimed): the caption's font is chosen by the caption's length
\* alone: a caption longer than 10 characters gets the smallest size of the
\* template (19px, 20px in the 800x1200 revision) whatever the value is, and
\* in the 732x1039 template one longer than 7 gets 24px, one longer than 5
\* 28px, any other 32px.
C15_BucketsByCaptionOnly ==
    rPc \in {"rendered", "rendered800"} =>
        \A k \in 1..Len(CaptionOps(rCanvas)) :
            LET n == Len(rCard.valueDescription[1])
                px == FontPx(CaptionOps(rCanvas)[k].st.font)
            IN IF rPc = "rendered"
               THEN px = (IF n > 10 THEN 19 ELSE IF n > 7 THEN 24
                          ELSE IF n > 5 THEN 28 ELSE 32)
               ELSE n > 10 => px = 20

\* C15 (amended): the caption gets the smallest size (19px; 20px in the
\* 800x1200 revision) exactly when it is longer than 10 characters and the
\* value is one character long; otherwise the 732x1039 template gives 24px
\* to a caption longer than 7, 28px to one longer than 5 and 32px to any
\* other, and the 800x1200 revision 30px.  Both copies of the caption use
\* that font, and for the same value no longer caption gets a larger size.
C15_CaptionFont ==
    rPc \in {"rendered", "rendered800"} =>
        LET n == Len(rCard.valueDescription[1])
            one == Len(rCard.value[1]) = 1
            size == IF rPc = "rendered"
                    THEN (IF one /\ n > 10 THEN 19 ELSE IF n > 7 THEN 24
                          ELSE IF n > 5 THEN 28 ELSE 32)
                    ELSE (IF one /\ n > 10 THEN 20 ELSE 30)
        IN /\ Len(CaptionOps(rCanvas)) = (IF n > 0 THEN 2 ELSE 0)
           /\ \A k \in 1..Len(CaptionOps(rCanvas)) :
                  FontPx(CaptionOps(rCanvas)[k].st.font) = size
           /\ n > 0 =>
                  \A longer \in {t \in CaptionTexts : Len(t) > n} :
                      FontPx(OpsOf(Rendering(rPc,
                                 [rCard EXCEPT !.valueDescription = Some(longer)],
                                 rImage), "caption")[1].st.font) <= size

\* a caption of 11 characters next to a value of two: drawn at 24px
C15_Witness ==
    /\ rPc = "rendered"
    /\ Len(rCard.value[1]) = 2
    /\ Len(rCard.valueDescription[1]) = 11
    /\ Len(CaptionOps(rCanvas)) = 2
    /\ CaptionOps(rCanvas)[1].st.font = "24px Bangers"

\* C16: in every render cornerWidth is 90 + 50 * value.length (80 + 60 *
\* value.length in the 800x1200 revision); that one number places the
\* description lines (x = cornerWidth + 35, both copies), sizes both badges
\* (their edge at x = cornerWidth and at x = w - cornerWidth) and anchors the
\* value and the caption (x = cornerWidth / 2, the mirrored copies at
\* w - cornerWidth / 2); and no longer value gives a smaller cornerWidth.
C16_CornerWidth ==
    rPc \in {"rendered", "rendered800"} =>
        LET len == Len(rCard.value[1])
            cw == IF rPc = "rendered" THEN 90 + 50 * len ELSE 80 + 60 * len
            w == T(rCanvas.width)
            h == T(rCanvas.height)
            at(tag) == OpsOf(rCanvas, tag)
        IN /\ \A k \in 1..Len(at("description")) : at("description")[k].a.x = T(cw + 35)
           /\ \A k \in 1..Len(at("descriptionMirror")) :
                  at("descriptionMirror")[k].a.x = T(cw + 35)
           /\ at("badgeTopLeft")[1].a.path[2] = <<"L", T(cw), 0>>
           /\ at("badgeTopLeft")[1].a.path[3] = <<"L", T(cw), T(175)>>
           /\ at("badgeBottomRight")[1].a.path[2] = <<"L", w - T(cw), h>>
           /\ at("badgeBottomRight")[1].a.path[3] = <<"L", w - T(cw), h - T(175)>>
           /\ at("value")[1].a.x = T(cw) \div 2
           /\ at("valueMirror")[1].st.tf.tx = w - T(cw) \div 2
           /\ \A k \in 1..Len(at("caption")) : at("caption")[k].a.x = T(cw) \div 2
           /\ \A k \in 1..Len(at("captionMirror")) :
                  at("captionMirror")[k].st.tf.tx = w - T(cw) \div 2
           /\ \A longer \in {v \in ValueTexts : Len(v) > len} :
                  OpsOf(Rendering(rPc, [rCard EXCEPT !.value = Some(longer)], rImage),
                        "badgeTopLeft")[1].a.path[2][2] >= T(cw)

\* a value of two characters with description and caption: cornerWidth 190
C16_Witness ==
    /\ rPc = "rendered"
    /\ Len(rCard.value[1]) = 2
    /\ Len(OpsOf(rCanvas, "description")) = 2
    /\ OpsOf(rCanvas, "description")[1].a.x = T(225)
    /\ OpsOf(rCanvas, "badgeTopLeft")[1].a.path[2] = <<"L", T(190), 0>>
    /\ Len(OpsOf(rCanvas, "caption")) = 1
    /\ OpsOf(rCanvas, "caption")[1].a.x = T(95)

\* C17: the border stroke and both badge fills use one paint.  It is, when
\* borderColor is "rainbow", a gradient down the whole height of the surface
\* with seven stops at i/6, i = 0..6, the first and the last of one color;
\* when borderColor is another non-empty string, that color; when it is
\* absent or empty, white.
C17_BorderPaint ==
    rPc \in {"rendered", "rendered800"} =>
        LET stroke == OpsOf(rCanvas, "border")[1].st.strokeStyle
            top == OpsOf(rCanvas, "badgeTopLeft")[1].st.fillStyle
            bottom == OpsOf(rCanvas, "badgeBottomRight")[1].st.fillStyle
        IN /\ top = stroke
           /\ bottom = stroke
           /\ IF rCard.borderColor = Some("rainbow")
              THEN /\ stroke.kind = "gradient"
                   /\ <<stroke.x0, stroke.y0, stroke.x1, stroke.y1>>
                          = <<0, 0, 0, T(rCanvas.height)>>
                   /\ Len(stroke.stops) = 7
                   /\ \A k \in 1..7 :
                          stroke.stops[k][1][1] * 6 = (k - 1) * stroke.stops[k][1][2]
                   /\ stroke.stops[1][2] = stroke.stops[7][2]
              ELSE IF TruthyStr(rCard.borderColor)
              THEN stroke = Color(rCard.borderColor[1])
              ELSE stroke = Color("white")

\* a rainbow border: the stroke's paint is the seven-stop gradient
C17_Witness ==
    /\ rPc = "rendered"
    /\ rCard.borderColor = Some("rainbow")
    /\ OpsOf(rCanvas, "border")[1].st.strokeStyle.kind = "gradient"
    /\ Len(OpsOf(rCanvas, "border")[1].st.strokeStyle.stops) = 7
    /\ OpsOf(rCanvas, "badgeBottomRight")[1].st.fillStyle
          = OpsOf(rCanvas, "border")[1].st.strokeStyle

\* The point of the surface a text operation is anchored at, and whether the
\* operation m is the half-turn copy of the operation e on the surface.
Anchor(e) == <<e.st.tf.tx + e.st.tf.s * e.a.x, e.st.tf.ty + e.st.tf.s * e.a.y>>
IsMirrorOf(m, e, canvas) ==
    /\ Anchor(m) = <<T(canvas.width) - Anchor(e)[1], T(canvas.height) - Anchor(e)[2]>>
    /\ e.st.tf.s = 1
    /\ m.st.tf.s = -1
    /\ m.a.text = e.a.text
    /\ m.st.font = e.st.font
    /\ m.st.fillStyle = e.st.fillStyle
    /\ m.st.textAlign = e.st.textAlign

\* C18: every description line, the value and the caption drawn at the
\* point (x, y) of the surface have exactly one copy among the mirrored
\* operations of their block: anchored at (W - x, H - y), turned by 180
\* degrees, with the same string, font, alignment and fill; and there is no
\* mirrored operation without its original.
C18_MirrorSymmetry ==
    rPc \in {"rendered", "rendered800"} =>
        \A pair \in {<<"description", "descriptionMirror">>, <<"value", "valueMirror">>,
                     <<"caption", "captionMirror">>} :
            LET es == OpsOf(rCanvas, pair[1])
                ms == OpsOf(rCanvas, pair[2])
            IN /\ Len(ms) = Len(es)
               /\ \A j \in 1..Len(es) :
                      Cardinality({k \in 1..Len(ms) : IsMirrorOf(ms[k], es[j], rCanvas)}) = 1

\* two description lines, a two character value and a caption, each with its
\* copy; the second line's copy is anchored at (W - 225, H - 97)
C18_Witness ==
    /\ rPc = "rendered"
    /\ Len(rCard.value[1]) = 2
    /\ Len(OpsOf(rCanvas, "descriptionMirror")) = 2
    /\ Len(OpsOf(rCanvas, "captionMirror")) = 1
    /\ Anchor(OpsOf(rCanvas, "descriptionMirror")[2]) = <<T(732 - 225), T(1039 - 97)>>
    /\ Anchor(OpsOf(rCanvas, "valueMirror")[1]) = <<T(732 - 95), T(1039 - 117)>>

\* The blocks of the operations of a surface, in the order they were drawn.
TagSeq(canvas) == [k \in 1..Len(canvas.pixels) |-> canvas.pixels[k].tag]

\* C19 (as claimed): the render of the minimal card without a bitmap raises
\* nothing and draws the base fill, the border stroke, the two badges and
\* the two value glyphs, and nothing else: no vignette gradient.
C19_MinimalCardNoVignette ==
    (rPc \in {"rendered", "rendered800"} /\ rCard = MinimalCard /\ rImage = None) =>
        /\ ~rRaised
        /\ Tags(rCanvas) = {"base", "border", "badgeTopLeft", "badgeBottomRight",
                            "value", "valueMirror"}

\* C19 (amended): the render of the minimal card without a bitmap raises
\* nothing and draws, in this order, the white base fill, the bottom and the
\* top vignette gradient (noGradient is not set), the border stroke and the
\* two badges in the default white, and the glyph "3" once in each corner;
\* no photo, body text, description or caption.
C19_MinimalCard ==
    (rPc \in {"rendered", "rendered800"} /\ rCard = MinimalCard /\ rImage = None) =>
        /\ ~rRaised
        /\ TagSeq(rCanvas) = <<"base", "gradientBottom", "gradientTop", "border",
                               "badgeTopLeft", "badgeBottomRight", "value", "valueMirror">>
        /\ rCanvas.pixels[1].st.fillStyle = Color("white")
        /\ rCanvas.pixels[2].st.fillStyle.kind = "gradient"
        /\ rCanvas.pixels[3].st.fillStyle.kind = "gradient"
        /\ rCanvas.pixels[4].st.strokeStyle = Color("white")
        /\ rCanvas.pixels[5].st.fillStyle = Color("white")
        /\ rCanvas.pixels[6].st.fillStyle = Color("white")
        /\ rCanvas.pixels[7].a.text = <<"3">>
        /\ rCanvas.pixels[8].a.text = <<"3">>
        /\ IsMirrorOf(rCanvas.pixels[8], rCanvas.pixels[7], rCanvas)

\* the minimal card rendered on the 732x1039 surface: eight operations
C19_Witness ==
    /\ rPc = "rendered"
    /\ rCard = MinimalCard
    /\ rImage = None
    /\ Len(rCanvas.pixels) = 8
    /\ "gradientTop" \in Tags(rCanvas)

\* The photo of a render covers the whole surface.
PhotoCovers(canvas) ==
    /\ Len(OpsOf(canvas, "photo")) = 1
    /\ LET a == OpsOf(canvas, "photo")[1].a IN
       /\ a.x <= 0 /\ a.y <= 0
       /\ a.x + a.w >= T(canvas.width) /\ a.y + a.h >= T(canvas.height)
GradientOps(canvas) == OpsOf(canvas, "gradientBottom") \o OpsOf(canvas, "gradientTop")

\* C20 (as claimed): in a render with gradients over a photo that covers the
\* surface, one of the two gradients has a non-zero black alpha at half the
\* height, so the center pixel is darker than the photo.
C20_CenterDarkened ==
    (/\ rPc \in {"rendered", "rendered800"}
     /\ PhotoCovers(rCanvas)
     /\ GradientOps(rCanvas) # <<>>) =>
        \E k \in 1..Len(GradientOps(rCanvas)) :
            GradientAlpha(GradientOps(rCanvas)[k].st.fillStyle, <<1, 2>>)[1] > 0

\* C20 (amended): in every render with gradients both gradients are fills
\* of the whole surface with alpha 0 at half the height, and the body text's
\* backing starts below it, so over a photo that covers the surface the
\* center pixel keeps the photo's color.  The darkening is at the edges: the
\* top gradient has alpha 0x88 (0x99 in the 800x1200 revision) at the top
\* edge, the bottom gradient the same at the bottom edge, and each is
\* non-zero one tenth of the height from its edge.
C20_CenterClear ==
    (rPc \in {"rendered", "rendered800"} /\ GradientOps(rCanvas) # <<>>) =>
        LET top == OpsOf(rCanvas, "gradientTop")[1]
            bottom == OpsOf(rCanvas, "gradientBottom")[1]
            full == [x |-> 0, y |-> 0, w |-> T(rCanvas.width), h |-> T(rCanvas.height)]
            edge == IF rPc = "rendered" THEN 136 ELSE 153
        IN /\ top.a = full /\ bottom.a = full
           /\ <<top.st.fillStyle.y0, top.st.fillStyle.y1>> = <<0, T(rCanvas.height)>>
           /\ <<bottom.st.fillStyle.y0, bottom.st.fillStyle.y1>> = <<0, T(rCanvas.height)>>
           /\ GradientAlpha(top.st.fillStyle, <<1, 2>>)[1] = 0
           /\ GradientAlpha(bottom.st.fillStyle, <<1, 2>>)[1] = 0
           /\ GradientAlpha(top.st.fillStyle, <<0, 1>>) = <<edge, 1>>
           /\ GradientAlpha(bottom.st.fillStyle, <<1, 1>>) = <<edge, 1>>
           /\ GradientAlpha(top.st.fillStyle, <<1, 10>>)[1] > 0
           /\ GradientAlpha(bottom.st.fillStyle, <<9, 10>>)[1] > 0
           /\ \A k \in 1..Len(OpsOf(rCanvas, "textBacking")) :
                  2 * OpsOf(rCanvas, "textBacking")[k].a.y > T(rCanvas.height)

\* a 732x1039 render with gradients and body text over a photo that covers
\* the surface
C20_Witness ==
    /\ rPc = "rendered"
    /\ PhotoCovers(rCanvas)
    /\ Len(GradientOps(rCanvas)) = 2
    /\ Len(OpsOf(rCanvas, "textBacking")) = 1
    /\ GradientAlpha(OpsOf(rCanvas, "gradientTop")[1].st.fillStyle, <<1, 2>>)[1] = 0

\* C21 (as claimed): a render with a bitmap of a card that has the image
\* placement "New card" gave it draws the photo at offset (0, 0) with the
\* width and height of the surface it is rendered on.
C21_NewCardPhotoFillsSurface ==
    (/\ rPc \in {"rendered", "rendered800"}
     /\ rImage # None
     /\ <<rCard.imageX, rCard.imageY, rCard.imageWidth, rCard.imageHeight>> =
            <<NewCard(1).imageX, NewCard(1).imageY,
              NewCard(1).imageWidth, NewCard(1).imageHeight>>) =>
        /\ Len(OpsOf(rCanvas, "photo")) = 1
        /\ OpsOf(rCanvas, "photo")[1].a =
               [image |-> rImage[1], x |-> 0, y |-> 0,
                w |-> T(rCanvas.width), h |-> T(rCanvas.height)]

\* What an operation draws with: the attributes of the drawing state that
\* its kind of operation reads.
Effective(e) ==
    CASE e.op = "fillText" ->
             [op |-> e.op, tag |-> e.tag, a |-> e.a, fillStyle |-> e.st.fillStyle,
              font |-> e.st.font, textAlign |-> e.st.textAlign,
              filter |-> e.st.filter, tf |-> e.st.tf]
      [] e.op = "stroke" ->
             [op |-> e.op, tag |-> e.tag, a |-> e.a, strokeStyle |-> e.st.strokeStyle,
              lineWidth |-> e.st.lineWidth, filter |-> e.st.filter, tf |-> e.st.tf]
      [] e.op = "drawImage" ->
             [op |-> e.op, tag |-> e.tag, a |-> e.a, filter |-> e.st.filter, tf |-> e.st.tf]
      [] OTHER ->
             [op |-> e.op, tag |-> e.tag, a |-> e.a, fillStyle |-> e.st.fillStyle,
              filter |-> e.st.filter, tf |-> e.st.tf]
EffectiveOps(canvas) == [k \in 1..Len(canvas.pixels) |-> Effective(canvas.pixels[k])]

\* C26 (as claimed): a render on a surface an earlier render drew on leaves
\* the same operations, each drawn with the same effective drawing state,
\* as a render of the same card and bitmap on a fresh surface, and returns
\* with the identity transform and an empty save stack.
C26_ReusedSurfaceIndependent ==
    rPc = "rerendered" =>
        /\ EffectiveOps(rCanvas) =
               EffectiveOps(renderCanvas(NewCanvas(732, 1039), rCard, rImage))
        /\ rCanvas.tf = Identity
        /\ rCanvas.stack = <<>>

(***************************************************************************)
(* Claims about the form's preview.                                        *)
(***************************************************************************)
\* C10 (as claimed): a preview render of a form whose imageId is empty or
\* names no stored image draws no photo.
C10_UnresolvedDrawsNoPhoto ==
    (/\ fRendered
     /\ (~TruthyStr(formValues.imageId) \/ Get(imageStore, formValues.imageId[1]) = None))
    => "photo" \notin Tags(canvasRef)

\* The bitmap the form holds once the photo of a card's imageId has loaded:
\* none when the imageId is empty, names no stored image or names a file
\* the browser cannot decode.
PhotoOf(c) ==
    IF TruthyStr(c.imageId) /\ Get(imageStore, c.imageId[1]) # None
    THEN LET image == Get(imageStore, c.imageId[1])[1] IN
         IF imageFileToDataUrl(image) \in DecodableSrc
         THEN Some([Bitmap(image) EXCEPT !.imageId = c.imageId])
         ELSE None
    ELSE None

\* C11 (as claimed): the cached raster of every record a save of the form
\* hands to the store is the rendering of that record's own field values and
\* of the photo of its imageId.
C11_SaveRendersRecord ==
    \A k \in 1..Len(puts) :
        puts[k].base64 =
            Some(toDataURL(renderCanvas(NewCanvas(732, 1039), puts[k], PhotoOf(puts[k]))))

\* C27 (as claimed): in every interleaving of imageId changes with the
\* loads they start, the bitmap the form holds is the decoded image of the
\* stored asset whose id it is tagged with; and when no load is pending and
\* the form's imageId names a stored image the browser can decode, the form
\* holds a bitmap tagged with that imageId.
C27_PreviewPhotoMatchesImageId ==
    /\ imageRef # None =>
           /\ TruthyStr(imageRef[1].imageId)
           /\ Get(imageStore, imageRef[1].imageId[1]) # None
           /\ imageRef[1].src =
                  imageFileToDataUrl(Get(imageStore, imageRef[1].imageId[1])[1])
    /\ (loads = <<>> /\ PhotoOf(formValues) # None) =>
           /\ imageRef # None
           /\ imageRef[1].imageId = formValues.imageId

(***************************************************************************)
(* Claims about the Dashboard's card handlers.                             *)
(***************************************************************************)
\* C22: "Duplicate" copies every field of the selected card under an id
\* that no stored card has, and the step in which its add resolves adds
\* exactly that one record to the card store: the store grows by one, the
\* new record is the copy, and every record that was stored is still stored
\* unchanged.
C22_DuplicateAddsOneCopy ==
    [][/\ (/\ Len(requests') = Len(requests) + 1
           /\ requests'[Len(requests')].kind = "duplicate") =>
              LET newCard == requests'[Len(requests')].card IN
              /\ dCard # None
              /\ newCard = [dCard[1] EXCEPT !.id = newCard.id]
              /\ newCard.id \notin IdsOf(cardStore)
              /\ cardStore' = cardStore
       /\ \A k \in 1..Len(requests) :
              (requests[k].kind = "duplicate" /\ requests' = Without(requests, k)) =>
                  LET newCard == requests[k].card IN
                  /\ newCard.id \notin IdsOf(cardStore)
                  /\ Len(cardStore') = Len(cardStore) + 1
                  /\ Get(cardStore', newCard.id) = Some(newCard)
                  /\ \A j \in 1..Len(cardStore) :
                         Get(cardStore', cardStore[j].id) = Some(cardStore[j])
      ]_vars

\* the copy of a saved card has been added and selected, next to the card
\* it was copied from
C22_Witness ==
    /\ requests = <<>>
    /\ \E j, k \in 1..Len(cardStore) :
           /\ cardStore[j].id # cardStore[k].id
           /\ cardStore[k].base64 # None
           /\ cardStore[j] = [cardStore[k] EXCEPT !.id = cardStore[j].id]
           /\ dCard = Some(cardStore[j])

\* Two cards that differ at most in their cached raster.
SameButCache(a, b) == [a EXCEPT !.base64 = None] = [b EXCEPT !.base64 = None]

\* C25 (as claimed): in every interleaving of an export with the user's
\* saves, removals, new cards and duplicates, a step of the export handler
\* leaves in the card store exactly the cards that were in it, each with
\* every field other than the cached raster unchanged: what the store holds
\* apart from the rasters is what the user's own operations put there.
C25_ExportChangesOnlyCache ==
    [][(<<ePc, eI>>' # <<ePc, eI>>) =>
           /\ Len(cardStore') = Len(cardStore)
           /\ \A k \in 1..Len(cardStore) : SameButCache(cardStore'[k], cardStore[k])
      ]_vars

(***************************************************************************)
(* Claims about the asset store.                                           *)
(***************************************************************************)
\* The images whose upload has stored them, the ids whose "Remove" was
\* clicked, and those whose removal has been carried out.
UploadedImages ==
    UNION {{uploads[k].images[j] : j \in 1..uploads[k].i} : k \in 1..Len(uploads)}
RemoveClicked == {removals[k].id : k \in 1..Len(removals)}
RemoveDone == {removals[k].id : k \in {j \in 1..Len(removals) : removals[j].stage = "done"}}
StoredImages == {imageStore[k] : k \in 1..Len(imageStore)}

\* C23 (as claimed): at every point of every interleaving of uploads and
\* removals, in either revision, the asset store holds each image under
\* its own id; every image that was stored at the start or that an upload
\* has stored is in it unless its "Remove" was clicked; it holds nothing
\* else; and no image whose removal was carried out is in it.
C23_UploadsPersist ==
    /\ Cardinality(IdsOf(imageStore)) = Len(imageStore)
    /\ Cardinality({img.id : img \in UploadedImages}) = Cardinality(UploadedImages)
    /\ \A img \in {PngA, TextB} \cup UploadedImages :
           img.id \notin RemoveClicked => img \in StoredImages
    /\ StoredImages \subseteq {PngA, TextB} \cup UploadedImages
    /\ \A id \in RemoveDone : id \notin IdsOf(imageStore)

====
